---- MODULE Spec2Model ----
(***************************************************************************)
(* A model of the command execution and transcript core of kubectl-ui:     *)
(* the KubectlRunner (kubectl_runner.go), the input validators, the        *)
(* command service methods of App, the resource decoders                   *)
(* (kubectl_parse.go) and the transcript buffer (app.go).                  *)
(*                                                                         *)
(* Go strings are TLA+ strings; a character of a string s is               *)
(* SubSeq(s, i, i).  Go slices are modelled with their backing arrays, so  *)
(* that aliasing between a slice and a copy of it is visible.              *)
(***************************************************************************)
EXTENDS Integers, Sequences, FiniteSets, TLC

VARIABLES
    pc,          \* pc[t]: where goroutine t stands inside the method it runs
    call,        \* call[t]: the method goroutine t runs, with its arguments
    args,        \* args[t]: the argument vector built for the Runner
    timeout,     \* timeout[t]: the timeout handed to the Runner, in seconds
    proc,        \* proc[t]: the external process of goroutine t
    expired,     \* expired[t]: runCtx.Err() is context.DeadlineExceeded
    result,      \* result[t]: the CommandResult goroutine t is building
    mu,          \* App.mu: 0 when free, else the goroutine holding it
    transcript,  \* App.transcript: a slice header into heap
    heap,        \* the backing arrays of the slices
    snapshots,   \* the slices GetTranscript has returned, oldest first
    last,        \* last[t]: the last call goroutine t finished, and its result
    runs,        \* runs[t]: the Runner.Run invocations of t's current call
    recs,        \* recs[t]: the envelopes t's current call passed to record
    appended,    \* the envelopes passed to record since the last clear
    calls,       \* how many command methods have been invoked so far
    clears,      \* how many times ClearTranscript has run
    cluster,     \* what kubectl lists: pods, or the names of NextNames
    clock        \* the reading of the wall clock (time.Now)

vars == <<pc, call, args, timeout, proc, expired, result, mu, transcript,
          heap, snapshots, last, runs, recs, appended, calls, clears, cluster,
          clock>>

-----------------------------------------------------------------------------
(* Strings *)

Char(s, i) == SubSeq(s, i, i)

\* strings.Repeat, by halving
RECURSIVE Repeat(_, _)
Repeat(s, n) ==
    IF n <= 0 THEN ""
    ELSE LET half == Repeat(s, n \div 2) IN
         IF n % 2 = 0 THEN half \o half ELSE half \o half \o s

Lower == {"a", "b", "c", "d", "e", "f", "g", "h", "i", "j", "k", "l", "m",
          "n", "o", "p", "q", "r", "s", "t", "u", "v", "w", "x", "y", "z"}
Upper == {"A", "B", "C", "D", "E", "F", "G", "H", "I", "J", "K", "L", "M",
          "N", "O", "P", "Q", "R", "S", "T", "U", "V", "W", "X", "Y", "Z"}
Digit == {"0", "1", "2", "3", "4", "5", "6", "7", "8", "9"}

\* strings.HasPrefix
HasPrefix(s, p) == Len(s) >= Len(p) /\ SubSeq(s, 1, Len(p)) = p

\* strings.Join(elems, sep)
RECURSIVE Join(_, _)
Join(elems, sep) ==
    IF Len(elems) = 0 THEN ""
    ELSE IF Len(elems) = 1 THEN elems[1]
    ELSE elems[1] \o sep \o Join(Tail(elems), sep)

DigitChar(d) ==
    CASE d = 0 -> "0" [] d = 1 -> "1" [] d = 2 -> "2" [] d = 3 -> "3"
      [] d = 4 -> "4" [] d = 5 -> "5" [] d = 6 -> "6" [] d = 7 -> "7"
      [] d = 8 -> "8" [] d = 9 -> "9"

\* fmt.Sprintf("%d", n)
RECURSIVE FormatNat(_)
FormatNat(n) ==
    IF n < 10 THEN DigitChar(n) ELSE FormatNat(n \div 10) \o DigitChar(n % 10)

FormatInt(n) == IF n < 0 THEN "-" \o FormatNat(0 - n) ELSE FormatNat(n)

\* unicode.IsSpace on the characters the samples use
IsSpace(c) == c \in {" ", "\n", "\t", "\r"}

RECURSIVE TrimLeft(_)
TrimLeft(s) ==
    IF Len(s) > 0 /\ IsSpace(Char(s, 1)) THEN TrimLeft(SubSeq(s, 2, Len(s)))
    ELSE s

RECURSIVE TrimRight(_)
TrimRight(s) ==
    IF Len(s) > 0 /\ IsSpace(Char(s, Len(s)))
    THEN TrimRight(SubSeq(s, 1, Len(s) - 1))
    ELSE s

\* strings.TrimSpace
TrimSpace(s) == TrimRight(TrimLeft(s))

-----------------------------------------------------------------------------
(* Input validation: kubectl_runner.go *)

MaxNameLen == 253

\* The automaton of ^[a-z0-9]([-a-z0-9]*[a-z0-9])?$ : "start" before the
\* first character, "alnum" after a lowercase alphanumeric (accepting),
\* "hyphen" after a hyphen, "dead" after anything the expression excludes.
DnsLabelStep(q, c) ==
    IF q = "start" THEN (IF c \in Lower \cup Digit THEN "alnum" ELSE "dead")
    ELSE IF q \in {"alnum", "hyphen"}
    THEN (IF c \in Lower \cup Digit THEN "alnum"
          ELSE IF c = "-" THEN "hyphen" ELSE "dead")
    ELSE "dead"

\* The state after characters lo..hi of s, from state q (the run is split in
\* halves, which is the same run).
RECURSIVE DnsLabelRun(_, _, _, _)
DnsLabelRun(q, s, lo, hi) ==
    IF lo > hi THEN q
    ELSE IF lo = hi THEN DnsLabelStep(q, Char(s, lo))
    ELSE LET mid == (lo + hi) \div 2
             left == DnsLabelRun(q, s, lo, mid)
         IN  IF left = "dead" THEN "dead" ELSE DnsLabelRun(left, s, mid + 1, hi)

\* The expression without its closing [a-z0-9]: ^[a-z0-9][-a-z0-9]*$
dnsLabelRegexOpenEnd(s) ==
    DnsLabelRun("start", s, 1, Len(s)) \in {"alnum", "hyphen"}

dnsLabelRegex(s) == DnsLabelRun("start", s, 1, Len(s)) = "alnum"

\* The automaton of ^[A-Za-z0-9][A-Za-z0-9._:@/-]*$
SafeContextStep(q, c) ==
    IF q = "start"
    THEN (IF c \in Lower \cup Upper \cup Digit THEN "ok" ELSE "dead")
    ELSE IF q = "ok"
    THEN (IF c \in Lower \cup Upper \cup Digit \cup {".", "_", ":", "@", "/", "-"}
          THEN "ok" ELSE "dead")
    ELSE "dead"

RECURSIVE SafeContextRun(_, _, _, _)
SafeContextRun(q, s, lo, hi) ==
    IF lo > hi THEN q
    ELSE IF lo = hi THEN SafeContextStep(q, Char(s, lo))
    ELSE LET mid == (lo + hi) \div 2
             left == SafeContextRun(q, s, lo, mid)
         IN  IF left = "dead" THEN "dead" ELSE SafeContextRun(left, s, mid + 1, hi)

safeContextRegex(s) == SafeContextRun("start", s, 1, Len(s)) = "ok"

\* An error is its message; NoError is Go's nil error.
NoError == [isNil |-> TRUE]
Errorf(msg) == [isNil |-> FALSE, msg |-> msg]

validateNamespace(name) ==
    IF Len(name) = 0 THEN Errorf("namespace is required")
    ELSE IF Len(name) > MaxNameLen \/ ~dnsLabelRegex(name)
    THEN Errorf("invalid namespace name")
    ELSE NoError

validatePodName(name) ==
    IF Len(name) = 0 THEN Errorf("pod name is required")
    ELSE IF Len(name) > MaxNameLen \/ ~dnsLabelRegex(name)
    THEN Errorf("invalid pod name")
    ELSE NoError

\* validateContextName without its length limit
validateContextNameAnyLength(name) ==
    IF name = "" THEN NoError
    ELSE IF HasPrefix(name, "-") THEN Errorf("invalid context name")
    ELSE IF ~safeContextRegex(name) THEN Errorf("invalid context name")
    ELSE NoError

\* validateContextName that rejects the empty name
validateContextNameRequired(name) ==
    IF name = "" THEN Errorf("context name is required")
    ELSE IF HasPrefix(name, "-") THEN Errorf("invalid context name")
    ELSE IF Len(name) > MaxNameLen \/ ~safeContextRegex(name)
    THEN Errorf("invalid context name")
    ELSE NoError

validateContextName(name) ==
    IF name = "" THEN NoError
    ELSE IF HasPrefix(name, "-") THEN Errorf("invalid context name")
    ELSE IF Len(name) > MaxNameLen \/ ~safeContextRegex(name)
    THEN Errorf("invalid context name")
    ELSE NoError

\* withContext that puts the flag after the arguments
withContextTrailing(a, contextName) ==
    LET err == validateContextName(contextName) IN
    IF ~err.isNil THEN [args |-> <<>>, err |-> err]
    ELSE IF contextName = "" THEN [args |-> a, err |-> NoError]
    ELSE [args |-> a \o <<"--context", contextName>>, err |-> NoError]

\* withContext returns (args, error)
withContext(a, contextName) ==
    LET err == validateContextName(contextName) IN
    IF ~err.isNil THEN [args |-> <<>>, err |-> err]
    ELSE IF contextName = "" THEN [args |-> a, err |-> NoError]
    ELSE [args |-> <<"--context", contextName>> \o a, err |-> NoError]

-----------------------------------------------------------------------------
(* encoding/json: the syntax of a JSON text (the scanner of checkValid,    *)
(* together with the values it delimits).                                  *)
(* A JSON value is a record tagged by t: "null", "bool" (b), "num" (lit,   *)
(* the literal as written), "str" (s), "arr" (elems), "obj" (keys, vals).  *)
(* A parse yields [ok, v, eof]: success, the value, and on failure whether *)
(* the text ended too early.  Of the escapes in strings, \b, \f and \u are *)
(* not read: no sampled text has them.                                     *)

JNull == [t |-> "null"]
ParseFail(eof) == [ok |-> FALSE, v |-> JNull, eof |-> eof]
ParseOk(v) == [ok |-> TRUE, v |-> v, eof |-> FALSE]

\* The scanner's states inside a number:
\* -? (0 | [1-9][0-9]*) (. [0-9]+)? ([eE] [+-]? [0-9]+)?
NumberStep(q, c) ==
    CASE q = "start" /\ c = "-" -> "neg"
      [] q \in {"start", "neg"} /\ c = "0" -> "zero"
      [] q \in {"start", "neg"} /\ c \in Digit -> "int"
      [] q = "int" /\ c \in Digit -> "int"
      [] q \in {"zero", "int"} /\ c = "." -> "dot"
      [] q \in {"dot", "frac"} /\ c \in Digit -> "frac"
      [] q \in {"zero", "int", "frac"} /\ c \in {"e", "E"} -> "e"
      [] q = "e" /\ c \in {"+", "-"} -> "esign"
      [] q \in {"e", "esign", "exp"} /\ c \in Digit -> "exp"
      [] OTHER -> "stop"

NumberEnds == {"zero", "int", "frac", "exp"}

\* The scanner: st is its step function (beginValue, beginValueOrEmpty,
\* beginStringOrEmpty, beginString, colon, endValue, endTop, inString,
\* inStringEsc, num, lit, error); stack holds the open arrays and objects,
\* each a frame [t, keys, vals] of what it has so far; buf is the string or
\* number being read, key whether the string is a key, num the state inside
\* a number, lit what is left of a literal and litv its value, top the
\* finished top-level value.
Scanner ==
    [st |-> "beginValue", stack |-> <<>>, buf |-> "", key |-> FALSE,
     num |-> "start", lit |-> "", litv |-> JNull, top |-> JNull]

ScanError(m) == [m EXCEPT !.st = "error"]

Frame(t) == [t |-> t, keys |-> <<>>, vals |-> <<>>]

FrameValue(f) ==
    IF f.t = "arr" THEN [t |-> "arr", elems |-> f.vals]
    ELSE [t |-> "obj", keys |-> f.keys, vals |-> f.vals]

\* The value v is complete: it is the top-level value, or the next element
\* or member value of the innermost open array or object.
EndValue(m, v) ==
    IF m.stack = <<>> THEN [m EXCEPT !.st = "endTop", !.top = v]
    ELSE [m EXCEPT !.st = "endValue",
                   !.stack[Len(m.stack)].vals = Append(@, v)]

\* The closing bracket of the innermost open array or object
PopValue(m) ==
    EndValue([m EXCEPT !.stack = SubSeq(@, 1, Len(@) - 1)],
             FrameValue(m.stack[Len(m.stack)]))

\* stateBeginValue on a character that is not white space
BeginValue(m, c) ==
    CASE c = "{" ->
             [m EXCEPT !.st = "beginStringOrEmpty", !.stack = Append(@, Frame("obj"))]
      [] c = "[" ->
             [m EXCEPT !.st = "beginValueOrEmpty", !.stack = Append(@, Frame("arr"))]
      [] c = "\"" -> [m EXCEPT !.st = "inString", !.buf = "", !.key = FALSE]
      [] c = "-" \/ c \in Digit ->
             [m EXCEPT !.st = "num", !.buf = c, !.num = NumberStep("start", c)]
      [] c = "t" -> [m EXCEPT !.st = "lit", !.lit = "rue",
                              !.litv = [t |-> "bool", b |-> TRUE]]
      [] c = "f" -> [m EXCEPT !.st = "lit", !.lit = "alse",
                              !.litv = [t |-> "bool", b |-> FALSE]]
      [] c = "n" -> [m EXCEPT !.st = "lit", !.lit = "ull", !.litv = JNull]
      [] OTHER -> ScanError(m)

BeginString(m, c) ==
    IF c = "\"" THEN [m EXCEPT !.st = "inString", !.buf = "", !.key = TRUE]
    ELSE ScanError(m)

\* stateEndValue and stateEndTop
EndStep(m, c) ==
    IF IsSpace(c) THEN m
    ELSE IF m.st = "endTop" THEN ScanError(m)
    ELSE IF c = ","
    THEN [m EXCEPT !.st = IF m.stack[Len(m.stack)].t = "arr" THEN "beginValue"
                          ELSE "beginString"]
    ELSE IF c = "]" /\ m.stack[Len(m.stack)].t = "arr" THEN PopValue(m)
    ELSE IF c = "}" /\ m.stack[Len(m.stack)].t = "obj" THEN PopValue(m)
    ELSE ScanError(m)

InString(m, c) ==
    IF c = "\""
    THEN (IF m.key
          THEN [m EXCEPT !.st = "colon", !.key = FALSE,
                         !.stack[Len(m.stack)].keys = Append(@, m.buf)]
          ELSE EndValue(m, [t |-> "str", s |-> m.buf]))
    ELSE IF c \in {"\n", "\t", "\r"} THEN ScanError(m)
    ELSE IF c = "\\" THEN [m EXCEPT !.st = "inStringEsc"]
    ELSE [m EXCEPT !.buf = @ \o c]

InStringEsc(m, c) ==
    CASE c \in {"\"", "\\", "/"} -> [m EXCEPT !.st = "inString", !.buf = @ \o c]
      [] c = "n" -> [m EXCEPT !.st = "inString", !.buf = @ \o "\n"]
      [] c = "t" -> [m EXCEPT !.st = "inString", !.buf = @ \o "\t"]
      [] c = "r" -> [m EXCEPT !.st = "inString", !.buf = @ \o "\r"]
      [] OTHER -> ScanError(m)

\* Inside a number: the number goes on, or it ends before c.
InNumber(m, c) ==
    IF NumberStep(m.num, c) # "stop"
    THEN [m EXCEPT !.num = NumberStep(m.num, c), !.buf = @ \o c]
    ELSE IF m.num \in NumberEnds
    THEN EndStep(EndValue(m, [t |-> "num", lit |-> m.buf]), c)
    ELSE ScanError(m)

InLiteral(m, c) ==
    IF Head(m.lit) # c THEN ScanError(m)
    ELSE IF Len(m.lit) = 1 THEN EndValue(m, m.litv)
    ELSE [m EXCEPT !.lit = Tail(@)]

\* One character
ScanStep(m, c) ==
    CASE m.st = "error" -> m
      [] m.st = "inString" -> InString(m, c)
      [] m.st = "inStringEsc" -> InStringEsc(m, c)
      [] m.st = "num" -> InNumber(m, c)
      [] m.st = "lit" -> InLiteral(m, c)
      [] m.st \in {"endValue", "endTop"} -> EndStep(m, c)
      [] OTHER ->
             IF IsSpace(c) THEN m
             ELSE CASE m.st = "beginValue" -> BeginValue(m, c)
                    [] m.st = "beginValueOrEmpty" ->
                           IF c = "]" THEN PopValue(m) ELSE BeginValue(m, c)
                    [] m.st = "beginStringOrEmpty" ->
                           IF c = "}" THEN PopValue(m) ELSE BeginString(m, c)
                    [] m.st = "beginString" -> BeginString(m, c)
                    [] m.st = "colon" ->
                           IF c = ":" THEN [m EXCEPT !.st = "beginValue"]
                           ELSE ScanError(m)

\* The scanner after characters lo..hi of s (the run is split in halves,
\* which is the same run).
RECURSIVE ScanRun(_, _, _, _)
ScanRun(m, s, lo, hi) ==
    IF lo > hi THEN m
    ELSE IF lo = hi THEN ScanStep(m, Char(s, lo))
    ELSE LET mid == (lo + hi) \div 2
             left == ScanRun(m, s, lo, mid)
         IN  IF left.st = "error" THEN left ELSE ScanRun(left, s, mid + 1, hi)

\* The end of the text
ScanEnd(m) ==
    IF m.st = "error" THEN ParseFail(FALSE)
    ELSE IF m.st = "endTop" THEN ParseOk(m.top)
    ELSE IF m.st = "num" /\ m.stack = <<>> /\ m.num \in NumberEnds
    THEN ParseOk([t |-> "num", lit |-> m.buf])
    ELSE ParseFail(TRUE)

\* json.Unmarshal's first pass (checkValid): one value, then only white space.
ParseJSON(s) == ScanEnd(ScanRun(Scanner, s, 1, Len(s)))

-----------------------------------------------------------------------------
(* encoding/json: decoding a value into the structs of kubectl_parse.go.   *)
(* A key matches a field when equal to its name up to the case of ASCII    *)
(* letters; a null member leaves the field alone; of several members of    *)
(* one field the last decides; a member of the wrong JSON type is an       *)
(* UnmarshalTypeError.  Members of no field are ignored.                   *)

UpperSeq == "ABCDEFGHIJKLMNOPQRSTUVWXYZ"
LowerSeq == "abcdefghijklmnopqrstuvwxyz"

ToLowerChar(c) ==
    IF c \in Upper
    THEN Char(LowerSeq, CHOOSE i \in 1..Len(UpperSeq) : Char(UpperSeq, i) = c)
    ELSE c

RECURSIVE Fold(_)
Fold(s) ==
    IF Len(s) = 0 THEN ""
    ELSE ToLowerChar(Char(s, 1)) \o Fold(SubSeq(s, 2, Len(s)))

SetMax(S) == CHOOSE m \in S : \A x \in S : x <= m

EmptyObject == [t |-> "obj", keys |-> <<>>, vals |-> <<>>]

\* The non-null members of object v that decode into field name.
Members(v, name) ==
    {i \in 1..Len(v.keys) : Fold(v.keys[i]) = Fold(name) /\ v.vals[i].t # "null"}

HasMember(v, name) == Members(v, name) # {}
Member(v, name) == v.vals[SetMax(Members(v, name))]

\* Every member of field name has one of the JSON types in types.
MembersAre(v, name, types) == \A i \in Members(v, name) : v.vals[i].t \in types

\* strconv.ParseInt on the literal of a JSON number
IsIntLiteral(lit) ==
    LET body == IF HasPrefix(lit, "-") THEN SubSeq(lit, 2, Len(lit)) ELSE lit
    IN  Len(body) > 0 /\ \A i \in 1..Len(body) : Char(body, i) \in Digit

DigitValue(c) == CHOOSE d \in 0..9 : DigitChar(d) = c

RECURSIVE ParseNat(_)
ParseNat(s) ==
    IF Len(s) = 0 THEN 0
    ELSE 10 * ParseNat(SubSeq(s, 1, Len(s) - 1)) + DigitValue(Char(s, Len(s)))

ParseInt(lit) ==
    IF HasPrefix(lit, "-") THEN 0 - ParseNat(SubSeq(lit, 2, Len(lit)))
    ELSE ParseNat(lit)

StringField(v, name) == IF HasMember(v, name) THEN Member(v, name).s ELSE ""
BoolField(v, name) == IF HasMember(v, name) THEN Member(v, name).b ELSE FALSE
IntField(v, name) == IF HasMember(v, name) THEN ParseInt(Member(v, name).lit) ELSE 0
StructField(v, name) == IF HasMember(v, name) THEN Member(v, name) ELSE EmptyObject
SliceField(v, name) == IF HasMember(v, name) THEN Member(v, name).elems ELSE <<>>

StringFieldOk(v, name) == MembersAre(v, name, {"str"})
BoolFieldOk(v, name) == MembersAre(v, name, {"bool"})
IntFieldOk(v, name) ==
    \A i \in Members(v, name) : v.vals[i].t = "num" /\ IsIntLiteral(v.vals[i].lit)
StructFieldOk(v, name) == MembersAre(v, name, {"obj"})
SliceFieldOk(v, name) == MembersAre(v, name, {"arr"})

\* An element of a []struct: an object, or null (the zero struct).
IsStructElem(e) == e.t \in {"obj", "null"}
AsStruct(e) == IF e.t = "obj" THEN e ELSE EmptyObject

-----------------------------------------------------------------------------
(* time: an instant is [day, sod]: the days since 0001-01-01 and the       *)
(* second of the day, so the zero time.Time is [0, 0].  The texts are the  *)
(* UTC form kubectl prints, YYYY-MM-DDTHH:MM:SSZ.  A duration is a number  *)
(* of whole seconds.                                                       *)

IsLeap(y) == y % 4 = 0 /\ (y % 100 # 0 \/ y % 400 = 0)

DaysIn(y, m) ==
    IF m = 2 THEN (IF IsLeap(y) THEN 29 ELSE 28)
    ELSE IF m \in {4, 6, 9, 11} THEN 30 ELSE 31

RECURSIVE DaysBeforeMonth(_, _)
DaysBeforeMonth(y, m) ==
    IF m <= 1 THEN 0 ELSE DaysBeforeMonth(y, m - 1) + DaysIn(y, m - 1)

DaysBeforeYear(y) ==
    365 * (y - 1) + (y - 1) \div 4 - (y - 1) \div 100 + (y - 1) \div 400

AllDigits(s) == \A i \in 1..Len(s) : Char(s, i) \in Digit

ZeroTime == [day |-> 0, sod |-> 0]

\* Time.UnmarshalJSON on the content of a JSON string: [ok, at]
ParseTime(s) ==
    IF Len(s) # 20 THEN [ok |-> FALSE, at |-> ZeroTime]
    ELSE LET ys == SubSeq(s, 1, 4)   ms == SubSeq(s, 6, 7)
             ds == SubSeq(s, 9, 10)  hs == SubSeq(s, 12, 13)
             ns == SubSeq(s, 15, 16) ss == SubSeq(s, 18, 19)
             shape == /\ Char(s, 5) = "-" /\ Char(s, 8) = "-" /\ Char(s, 11) = "T"
                      /\ Char(s, 14) = ":" /\ Char(s, 17) = ":" /\ Char(s, 20) = "Z"
                      /\ AllDigits(ys \o ms \o ds \o hs \o ns \o ss)
         IN  IF ~shape THEN [ok |-> FALSE, at |-> ZeroTime]
             ELSE LET y == ParseNat(ys)  m == ParseNat(ms)  d == ParseNat(ds)
                      h == ParseNat(hs)  n == ParseNat(ns)  sec == ParseNat(ss)
                  IN  IF /\ m \in 1..12 /\ y >= 1 /\ d \in 1..DaysIn(y, m)
                         /\ h < 24 /\ n < 60 /\ sec < 60
                      THEN [ok |-> TRUE,
                            at |-> [day |-> DaysBeforeYear(y)
                                            + DaysBeforeMonth(y, m) + d - 1,
                                    sod |-> h * 3600 + n * 60 + sec]]
                      ELSE [ok |-> FALSE, at |-> ZeroTime]

TimeFieldOk(v, name) ==
    \A i \in Members(v, name) : v.vals[i].t = "str" /\ ParseTime(v.vals[i].s).ok
TimeField(v, name) ==
    IF HasMember(v, name) THEN ParseTime(Member(v, name).s).at ELSE ZeroTime

\* Time.IsZero
IsZero(at) == at = ZeroTime

\* time.Since(at) when the clock reads now, in seconds
Since(now, at) == (now.day - at.day) * 86400 + (now.sod - at.sod)

\* The readings of the clock (time.Now inside time.Since).
NowSamples == {ParseTime("2024-03-10T12:00:00Z").at}

-----------------------------------------------------------------------------
(* The resource decoders: kubectl_parse.go.  A decoder returns             *)
(* [err, val]: Go's (value, error).                                        *)

\* The message of a json.SyntaxError, by its kind.
SyntaxError(r) ==
    IF r.eof THEN Errorf("unexpected end of JSON input")
    ELSE Errorf("invalid character")

TypeError == Errorf("json: cannot unmarshal")

\* json.Unmarshal of a text into a struct, before the fields are read:
\* [err, v], v the object to read the fields from (null leaves the struct at
\* its zero value; any other value than an object is of the wrong type).
UnmarshalValue(r) ==
    IF ~r.ok THEN [err |-> SyntaxError(r), v |-> EmptyObject]
    ELSE IF r.v.t = "null" THEN [err |-> NoError, v |-> EmptyObject]
    ELSE IF r.v.t # "obj" THEN [err |-> TypeError, v |-> EmptyObject]
    ELSE [err |-> NoError, v |-> r.v]

Unmarshal(stdout) == UnmarshalValue(ParseJSON(stdout))

\* namespaceList
NamespaceItemOk(e) ==
    /\ IsStructElem(e)
    /\ StructFieldOk(AsStruct(e), "metadata")
    /\ StringFieldOk(StructField(AsStruct(e), "metadata"), "name")

namespaceListOk(v) ==
    /\ SliceFieldOk(v, "items")
    /\ \A i \in 1..Len(SliceField(v, "items")) :
           NamespaceItemOk(SliceField(v, "items")[i])

\* kubeConfigView
kubeConfigViewOk(v) ==
    /\ SliceFieldOk(v, "contexts")
    /\ \A i \in 1..Len(SliceField(v, "contexts")) :
           LET e == SliceField(v, "contexts")[i] IN
           IsStructElem(e) /\ StringFieldOk(AsStruct(e), "name")

\* podList
ReasonOk(state, name) ==
    /\ StructFieldOk(state, name)
    /\ StringFieldOk(StructField(state, name), "reason")

ContainerStatusOk(e) ==
    /\ IsStructElem(e)
    /\ BoolFieldOk(AsStruct(e), "ready")
    /\ IntFieldOk(AsStruct(e), "restartCount")
    /\ StructFieldOk(AsStruct(e), "state")
    /\ ReasonOk(StructField(AsStruct(e), "state"), "waiting")
    /\ ReasonOk(StructField(AsStruct(e), "state"), "terminated")

PodItemOk(e) ==
    /\ IsStructElem(e)
    /\ StructFieldOk(AsStruct(e), "metadata")
    /\ StructFieldOk(AsStruct(e), "status")
    /\ LET md == StructField(AsStruct(e), "metadata")
           st == StructField(AsStruct(e), "status")
       IN  /\ StringFieldOk(md, "name")
           /\ TimeFieldOk(md, "creationTimestamp")
           /\ SliceFieldOk(md, "ownerReferences")
           /\ \A i \in 1..Len(SliceField(md, "ownerReferences")) :
                  LET o == SliceField(md, "ownerReferences")[i] IN
                  IsStructElem(o) /\ StringFieldOk(AsStruct(o), "kind")
           /\ StringFieldOk(st, "phase")
           /\ StringFieldOk(st, "reason")
           /\ StringFieldOk(st, "nodeName")
           /\ SliceFieldOk(st, "containerStatuses")
           /\ \A i \in 1..Len(SliceField(st, "containerStatuses")) :
                  ContainerStatusOk(SliceField(st, "containerStatuses")[i])

podListOk(v) ==
    /\ SliceFieldOk(v, "items")
    /\ \A i \in 1..Len(SliceField(v, "items")) : PodItemOk(SliceField(v, "items")[i])

\* The loop of parseNamespaces and parseContexts over the names of the
\* NonEmpty that skips a name it has appended before
RECURSIVE NonEmptyOnce(_)
NonEmptyOnce(names) ==
    IF Len(names) = 0 THEN <<>>
    ELSE LET n == names[Len(names)]
             front == NonEmptyOnce(SubSeq(names, 1, Len(names) - 1))
         IN IF n = "" \/ \E i \in 1..Len(front) : front[i] = n THEN front
            ELSE Append(front, n)

\* items: the empty ones skipped, the others appended in order.
RECURSIVE NonEmpty(_)
NonEmpty(names) ==
    IF Len(names) = 0 THEN <<>>
    ELSE IF Head(names) = "" THEN NonEmpty(Tail(names))
    ELSE <<Head(names)>> \o NonEmpty(Tail(names))

NamespaceName(item) == StringField(StructField(item, "metadata"), "name")
ContextName(item) == StringField(item, "name")

RECURSIVE AsNamespaces(_)
AsNamespaces(names) ==
    IF Len(names) = 0 THEN <<>>
    ELSE <<[Name |-> Head(names)]>> \o AsNamespaces(Tail(names))

NamespacesOf(items) ==
    AsNamespaces(NonEmpty([i \in 1..Len(items) |->
                              NamespaceName(AsStruct(items[i]))]))

NamespacesFrom(u) ==
    IF ~u.err.isNil THEN [err |-> u.err, val |-> <<>>]
    ELSE IF ~namespaceListOk(u.v) THEN [err |-> TypeError, val |-> <<>>]
    ELSE [err |-> NoError, val |-> NamespacesOf(SliceField(u.v, "items"))]

parseNamespaces(stdout) == NamespacesFrom(Unmarshal(stdout))

ContextsOf(contexts) ==
    NonEmpty([i \in 1..Len(contexts) |-> ContextName(AsStruct(contexts[i]))])

ContextsFrom(u) ==
    IF ~u.err.isNil THEN [err |-> u.err, val |-> <<>>]
    ELSE IF ~kubeConfigViewOk(u.v) THEN [err |-> TypeError, val |-> <<>>]
    ELSE [err |-> NoError, val |-> ContextsOf(SliceField(u.v, "contexts"))]

parseContexts(stdout) == ContextsFrom(Unmarshal(stdout))

\* formatAge with <= in the place of <
formatAgeInclusive(d) ==
    IF d <= 60 THEN FormatInt(d) \o "s"
    ELSE IF d <= 3600 THEN FormatInt(d \div 60) \o "m"
    ELSE IF d <= 24 * 3600 THEN FormatInt(d \div 3600) \o "h"
    ELSE IF d <= 7 * 24 * 3600 THEN FormatInt(d \div (24 * 3600)) \o "d"
    ELSE IF d <= 30 * 24 * 3600 THEN FormatInt(d \div (7 * 24 * 3600)) \o "w"
    ELSE FormatInt(d \div (30 * 24 * 3600)) \o "mo"

formatAge(d) ==
    IF d < 60 THEN FormatInt(d) \o "s"
    ELSE IF d < 3600 THEN FormatInt(d \div 60) \o "m"
    ELSE IF d < 24 * 3600 THEN FormatInt(d \div 3600) \o "h"
    ELSE IF d < 7 * 24 * 3600 THEN FormatInt(d \div (24 * 3600)) \o "d"
    ELSE IF d < 30 * 24 * 3600 THEN FormatInt(d \div (7 * 24 * 3600)) \o "w"
    ELSE FormatInt(d \div (30 * 24 * 3600)) \o "mo"

\* The loop with the reasons of an earlier container put over those of the
\* later ones
RECURSIVE ContainerLoopFirstWins(_, _, _)
ContainerLoopFirstWins(cs, i, acc) ==
    IF i > Len(cs) THEN acc
    ELSE LET c == AsStruct(cs[i])
             state == StructField(c, "state")
             waiting == StructField(state, "waiting")
             terminated == StructField(state, "terminated")
             rest == ContainerLoopFirstWins(cs, i + 1, acc)
             s1 == IF HasMember(state, "waiting") /\ StringField(waiting, "reason") # ""
                   THEN StringField(waiting, "reason") ELSE rest.status
             s2 == IF HasMember(state, "terminated")
                      /\ StringField(terminated, "reason") # ""
                   THEN StringField(terminated, "reason") ELSE s1
         IN  [readyCount |-> IF BoolField(c, "ready") THEN rest.readyCount + 1
                             ELSE rest.readyCount,
              restarts |-> rest.restarts + IntField(c, "restartCount"),
              status |-> s2]

\* The loop with restarts = cs.RestartCount in the place of +=
RECURSIVE ContainerLoopLastRestarts(_, _, _)
ContainerLoopLastRestarts(cs, i, acc) ==
    IF i > Len(cs) THEN acc
    ELSE LET c == AsStruct(cs[i])
             state == StructField(c, "state")
             waiting == StructField(state, "waiting")
             terminated == StructField(state, "terminated")
             s1 == IF HasMember(state, "waiting") /\ StringField(waiting, "reason") # ""
                   THEN StringField(waiting, "reason") ELSE acc.status
             s2 == IF HasMember(state, "terminated")
                      /\ StringField(terminated, "reason") # ""
                   THEN StringField(terminated, "reason") ELSE s1
         IN  ContainerLoopLastRestarts(cs, i + 1,
                 [readyCount |-> IF BoolField(c, "ready") THEN acc.readyCount + 1
                                 ELSE acc.readyCount,
                  restarts |-> IntField(c, "restartCount"),
                  status |-> s2])

\* The loop over item.Status.ContainerStatuses: acc is
\* [readyCount, restarts, status] before container i.
RECURSIVE ContainerLoop(_, _, _)
ContainerLoop(cs, i, acc) ==
    IF i > Len(cs) THEN acc
    ELSE LET c == AsStruct(cs[i])
             state == StructField(c, "state")
             waiting == StructField(state, "waiting")
             terminated == StructField(state, "terminated")
             s1 == IF HasMember(state, "waiting") /\ StringField(waiting, "reason") # ""
                   THEN StringField(waiting, "reason") ELSE acc.status
             s2 == IF HasMember(state, "terminated")
                      /\ StringField(terminated, "reason") # ""
                   THEN StringField(terminated, "reason") ELSE s1
         IN  ContainerLoop(cs, i + 1,
                 [readyCount |-> IF BoolField(c, "ready") THEN acc.readyCount + 1
                                 ELSE acc.readyCount,
                  restarts |-> acc.restarts + IntField(c, "restartCount"),
                  status |-> s2])

\* One iteration of the loop over list.Items
PodOf(item, now) ==
    LET md == StructField(item, "metadata")
        st == StructField(item, "status")
        cs == SliceField(st, "containerStatuses")
        status0 == IF StringField(st, "reason") # "" THEN StringField(st, "reason")
                   ELSE StringField(st, "phase")
        acc == ContainerLoop(cs, 1, [readyCount |-> 0, restarts |-> 0,
                                     status |-> status0])
        created == TimeField(md, "creationTimestamp")
    IN  [Name |-> StringField(md, "name"),
         Status |-> acc.status,
         Ready |-> FormatInt(acc.readyCount) \o "/" \o FormatInt(Len(cs)),
         Restarts |-> acc.restarts,
         Age |-> IF ~IsZero(created) THEN formatAge(Since(now, created)) ELSE "-",
         Node |-> IF StringField(st, "nodeName") = "" THEN "-"
                  ELSE StringField(st, "nodeName"),
         HasOwner |-> Len(SliceField(md, "ownerReferences")) > 0]

RECURSIVE PodsOf(_, _)
PodsOf(items, now) ==
    IF Len(items) = 0 THEN <<>>
    ELSE <<PodOf(AsStruct(Head(items)), now)>> \o PodsOf(Tail(items), now)

PodsFrom(u, now) ==
    IF ~u.err.isNil THEN [err |-> u.err, val |-> <<>>]
    ELSE IF ~podListOk(u.v) THEN [err |-> TypeError, val |-> <<>>]
    ELSE [err |-> NoError, val |-> PodsOf(SliceField(u.v, "items"), now)]

parsePods(stdout, now) == PodsFrom(Unmarshal(stdout), now)

-----------------------------------------------------------------------------
(* CommandResult, and Go slices of it.                                     *)
(* ParsedData is an interface{}: Nil, or a value of some type.  With       *)
(* omitempty the JSON field parsedData is present exactly when the         *)
(* interface is not nil.                                                   *)

Nil == [isNil |-> TRUE]
Iface(v) == [isNil |-> FALSE, value |-> v]

CommandResult(command, stdout, stderr, exitCode, durationMs) ==
    [Command |-> command, Stdout |-> stdout, Stderr |-> stderr,
     ExitCode |-> exitCode, DurationMs |-> durationMs, ParsedData |-> Nil]

\* A slice is a header [arr, off, len, cap] into the array heap[arr]; an
\* array is [cap, data], data being the elements written so far (the rest of
\* the array holds zero values no slice of the model reaches).
NewArray(h) == CHOOSE id \in 1..(Cardinality(DOMAIN h) + 1) : id \notin DOMAIN h

Elems(h, s) == [i \in 1..s.len |-> h[s.arr].data[s.off + i]]

\* h with element i (from 0) of array arr set to x
Store(h, arr, i, x) ==
    [h EXCEPT ![arr].data =
        IF i = Len(@) THEN Append(@, x) ELSE [@ EXCEPT ![i + 1] = x]]

\* append(s, x): in place while the capacity lasts, else into a new array
\* of twice the capacity (the runtime's growth below 256 elements).
AppendSlice(h, s, x) ==
    IF s.len < s.cap
    THEN [heap |-> Store(h, s.arr, s.off + s.len, x),
          slice |-> [s EXCEPT !.len = s.len + 1]]
    ELSE LET id == NewArray(h)
             newcap == IF s.cap = 0 THEN 1 ELSE 2 * s.cap
         IN  [heap |-> h @@ (id :> [cap |-> newcap,
                                    data |-> Append(Elems(h, s), x)]),
              slice |-> [arr |-> id, off |-> 0, len |-> s.len + 1,
                         cap |-> newcap]]

\* s[:len(s)-k] in the place of s[k:]
SliceKeepFirst(s, k) == [s EXCEPT !.len = s.len - k]

\* s[k:]
SliceFrom(s, k) == [s EXCEPT !.off = s.off + k, !.len = s.len - k, !.cap = s.cap - k]

\* s[:] in the place of s[:0]
SliceWhole(s) == s

\* s[:0]
SliceToZero(s) == [s EXCEPT !.len = 0]

\* out := s in the place of the copy
CopySliceAlias(h, s) == [heap |-> h, slice |-> s]

\* out := make([]CommandResult, len(s)); copy(out, s)
CopySlice(h, s) ==
    LET id == NewArray(h) IN
    [heap |-> h @@ (id :> [cap |-> s.len, data |-> Elems(h, s)]),
     slice |-> [arr |-> id, off |-> 0, len |-> s.len, cap |-> s.len]]

\* The garbage collector: only the arrays some slice refers to remain.
Collect(h, slices) ==
    [id \in {slices[i].arr : i \in DOMAIN slices} |-> h[id]]

-----------------------------------------------------------------------------
(* The command service: what each method does before it reaches the        *)
(* Runner.  A call is [op, contextName, namespace, name, tail].  The       *)
(* outcome is either Invalid (the envelope returned at once) or Valid (the *)
(* argument vector and the timeout handed to runKubectl).                  *)

defaultTimeout == 15
logsTimeout == 30
DefaultTail == 100

invalidResult(a, err) ==
    CommandResult("kubectl " \o Join(a, " "), "", err.msg, -1, 0)

Invalid(a, err) == [valid |-> FALSE, result |-> invalidResult(a, err)]
Valid(a, t) == [valid |-> TRUE, args |-> a, timeout |-> t]

ListContextsPrep == Valid(<<"config", "view", "-o", "json">>, defaultTimeout)

GetCurrentContextPrep == Valid(<<"config", "current-context">>, defaultTimeout)

SetContextPrep(name) ==
    IF ~validateContextName(name).isNil
    THEN Invalid(<<"config", "use-context", name>>, validateContextName(name))
    ELSE Valid(<<"config", "use-context", name>>, defaultTimeout)

ListNamespacesPrep(contextName) ==
    LET w == withContext(<<"get", "ns", "-o", "json">>, contextName) IN
    IF ~w.err.isNil
    THEN Invalid(<<"--context", contextName, "get", "ns", "-o", "json">>, w.err)
    ELSE Valid(w.args, defaultTimeout)

\* ListPods that shows the context in the envelope of a namespace failure too
ListPodsPrepShowsContext(contextName, namespace) ==
    LET base == <<"get", "pods", "-n", namespace, "-o", "json">>
        w == withContext(base, contextName)
    IN  IF ~validateNamespace(namespace).isNil
        THEN Invalid(<<"--context", contextName>> \o base,
                     validateNamespace(namespace))
        ELSE IF ~w.err.isNil
        THEN Invalid(<<"--context", contextName>> \o base, w.err)
        ELSE Valid(w.args, defaultTimeout)

ListPodsPrep(contextName, namespace) ==
    LET base == <<"get", "pods", "-n", namespace, "-o", "json">>
        w == withContext(base, contextName)
    IN  IF ~validateNamespace(namespace).isNil
        THEN Invalid(base, validateNamespace(namespace))
        ELSE IF ~w.err.isNil
        THEN Invalid(<<"--context", contextName>> \o base, w.err)
        ELSE Valid(w.args, defaultTimeout)

\* DeletePod that validates the context name first
DeletePodPrepContextFirst(contextName, namespace, name) ==
    LET base == <<"delete", "pod", name, "-n", namespace>>
        w == withContext(base, contextName)
    IN  IF ~w.err.isNil
        THEN Invalid(<<"--context", contextName>> \o base, w.err)
        ELSE IF ~validateNamespace(namespace).isNil
        THEN Invalid(base, validateNamespace(namespace))
        ELSE IF ~validatePodName(name).isNil
        THEN Invalid(base, validatePodName(name))
        ELSE Valid(w.args, defaultTimeout)

DeletePodPrep(contextName, namespace, name) ==
    LET base == <<"delete", "pod", name, "-n", namespace>>
        w == withContext(base, contextName)
    IN  IF ~validateNamespace(namespace).isNil
        THEN Invalid(base, validateNamespace(namespace))
        ELSE IF ~validatePodName(name).isNil
        THEN Invalid(base, validatePodName(name))
        ELSE IF ~w.err.isNil
        THEN Invalid(<<"--context", contextName>> \o base, w.err)
        ELSE Valid(w.args, defaultTimeout)

\* GetPodLogs with the default for tailLines == 0 only
GetPodLogsPrepZeroOnly(contextName, namespace, name, tail0) ==
    LET base == <<"logs", name, "-n", namespace>>
        tail == IF tail0 = 0 THEN DefaultTail ELSE tail0
        w == withContext(base \o <<"--tail=" \o FormatInt(tail)>>, contextName)
    IN  IF ~validateNamespace(namespace).isNil
        THEN Invalid(base, validateNamespace(namespace))
        ELSE IF ~validatePodName(name).isNil
        THEN Invalid(base, validatePodName(name))
        ELSE IF ~w.err.isNil
        THEN Invalid(<<"--context", contextName>> \o base, w.err)
        ELSE Valid(w.args, logsTimeout)

\* GetPodLogs with the timeout of the other methods
GetPodLogsPrepDefaultTimeout(contextName, namespace, name, tail0) ==
    LET base == <<"logs", name, "-n", namespace>>
        tail == IF tail0 <= 0 THEN DefaultTail ELSE tail0
        w == withContext(base \o <<"--tail=" \o FormatInt(tail)>>, contextName)
    IN  IF ~validateNamespace(namespace).isNil
        THEN Invalid(base, validateNamespace(namespace))
        ELSE IF ~validatePodName(name).isNil
        THEN Invalid(base, validatePodName(name))
        ELSE IF ~w.err.isNil
        THEN Invalid(<<"--context", contextName>> \o base, w.err)
        ELSE Valid(w.args, defaultTimeout)

GetPodLogsPrep(contextName, namespace, name, tail0) ==
    LET base == <<"logs", name, "-n", namespace>>
        tail == IF tail0 <= 0 THEN DefaultTail ELSE tail0
        w == withContext(base \o <<"--tail=" \o FormatInt(tail)>>, contextName)
    IN  IF ~validateNamespace(namespace).isNil
        THEN Invalid(base, validateNamespace(namespace))
        ELSE IF ~validatePodName(name).isNil
        THEN Invalid(base, validatePodName(name))
        ELSE IF ~w.err.isNil
        THEN Invalid(<<"--context", contextName>> \o base, w.err)
        ELSE Valid(w.args, logsTimeout)

DescribePodPrep(contextName, namespace, name) ==
    LET base == <<"describe", "pod", name, "-n", namespace>>
        w == withContext(base, contextName)
    IN  IF ~validateNamespace(namespace).isNil
        THEN Invalid(base, validateNamespace(namespace))
        ELSE IF ~validatePodName(name).isNil
        THEN Invalid(base, validatePodName(name))
        ELSE IF ~w.err.isNil
        THEN Invalid(<<"--context", contextName>> \o base, w.err)
        ELSE Valid(w.args, defaultTimeout)

Prep(c) ==
    CASE c.op = "ListContexts" -> ListContextsPrep
      [] c.op = "GetCurrentContext" -> GetCurrentContextPrep
      [] c.op = "SetContext" -> SetContextPrep(c.contextName)
      [] c.op = "ListNamespaces" -> ListNamespacesPrep(c.contextName)
      [] c.op = "ListPods" -> ListPodsPrep(c.contextName, c.namespace)
      [] c.op = "DeletePod" -> DeletePodPrep(c.contextName, c.namespace, c.name)
      [] c.op = "GetPodLogs" ->
             GetPodLogsPrep(c.contextName, c.namespace, c.name, c.tail)
      [] c.op = "DescribePod" ->
             DescribePodPrep(c.contextName, c.namespace, c.name)

\* The methods that decode the output of a process that exited with 0.
Decoding == {"ListContexts", "GetCurrentContext", "ListNamespaces", "ListPods"}

appendParseError(r, err) ==
    [r EXCEPT !.Stderr =
        (IF r.Stderr # "" THEN r.Stderr \o "\n" ELSE r.Stderr)
            \o "parse error: " \o err.msg]

WithParsed(r, parsed) ==
    IF ~parsed.err.isNil THEN appendParseError(r, parsed.err)
    ELSE [r EXCEPT !.ParsedData = Iface(parsed.val)]

\* The decoding without the test of the exit code
ShouldDecodeAlways(op, r) == op \in Decoding

\* if result.ExitCode == 0 { ... }: whether method op decodes the result r.
ShouldDecode(op, r) == op \in Decoding /\ r.ExitCode = 0

\* What a method does with the Runner's result when its exit code is 0.
Decoded(op, r, now) ==
    CASE op = "ListContexts" -> WithParsed(r, parseContexts(r.Stdout))
      [] op = "GetCurrentContext" ->
             [r EXCEPT !.ParsedData = Iface(TrimSpace(r.Stdout))]
      [] op = "ListNamespaces" -> WithParsed(r, parseNamespaces(r.Stdout))
      [] op = "ListPods" -> WithParsed(r, parsePods(r.Stdout, now))

\* An external process: state is "none", "running", "exited" (by itself,
\* with code), "killed" (by the deadline of runCtx), "canceled" (killed
\* because a.ctx was canceled) or "failed" (never started); stdout and stderr
\* are what it wrote.
Process(state, code, stdout, stderr, durationMs) ==
    [state |-> state, code |-> code, stdout |-> stdout, stderr |-> stderr,
     durationMs |-> durationMs]

NoProcess == Process("none", 0, "", "", 0)

\* The error of cmd.Run: nil after exit status 0; an *exec.ExitError after a
\* non-zero status or a signal, whose ExitCode() is -1 for a signal; some
\* other error when the process could not be started.
cmdRun(p) ==
    IF p.state = "exited" /\ p.code = 0 THEN [isNil |-> TRUE, isExitError |-> FALSE]
    ELSE IF p.state = "exited"
    THEN [isNil |-> FALSE, isExitError |-> TRUE, exitCode |-> p.code]
    ELSE IF p.state \in {"killed", "canceled"}
    THEN [isNil |-> FALSE, isExitError |-> TRUE, exitCode |-> -1]
    ELSE [isNil |-> FALSE, isExitError |-> FALSE]

\* Run without the synthesized message
RunResultSilent(a, p, late) ==
    LET err == cmdRun(p)
        exitCode == IF err.isNil THEN 0
                    ELSE IF err.isExitError THEN err.exitCode ELSE -1
    IN  CommandResult("kubectl " \o Join(a, " "), p.stdout, p.stderr, exitCode,
                      p.durationMs)

\* Run with exitCode left at 0 for an error that is no *exec.ExitError
RunResultNoFallback(a, p, late) ==
    LET err == cmdRun(p)
        exitCode == IF err.isNil THEN 0
                    ELSE IF err.isExitError THEN err.exitCode ELSE 0
        stderr == IF late /\ Len(p.stderr) = 0 THEN "command timed out"
                  ELSE p.stderr
    IN  CommandResult("kubectl " \o Join(a, " "), p.stdout, stderr, exitCode,
                      p.durationMs)

\* KubectlRunner.Run once cmd.Run has returned: p is the process, late
\* whether runCtx.Err() is context.DeadlineExceeded.
RunResult(a, p, late) ==
    LET err == cmdRun(p)
        exitCode == IF err.isNil THEN 0
                    ELSE IF err.isExitError THEN err.exitCode ELSE -1
        stderr == IF late /\ Len(p.stderr) = 0 THEN "command timed out"
                  ELSE p.stderr
    IN  CommandResult("kubectl " \o Join(a, " "), p.stdout, stderr, exitCode,
                      p.durationMs)

-----------------------------------------------------------------------------
(* The state machine.  A goroutine is idle or inside one method of App.    *)

NumThreads == 2
Threads == 1..NumThreads

TranscriptCap == 200

NoCall == [op |-> "none", contextName |-> "", namespace |-> "", name |-> "",
           tail |-> 0]
Call(op, contextName, namespace, name, tail) ==
    [op |-> op, contextName |-> contextName, namespace |-> namespace,
     name |-> name, tail |-> tail]

Finished(id, c, r, rs, rc) ==
    [id |-> id, call |-> c, result |-> r, runs |-> rs, recs |-> rc]

\* NewApp: the App before its first call.
NewApp ==
    /\ pc = [t \in Threads |-> "idle"]
    /\ call = [t \in Threads |-> NoCall]
    /\ args = [t \in Threads |-> <<>>]
    /\ timeout = [t \in Threads |-> 0]
    /\ proc = [t \in Threads |-> NoProcess]
    /\ expired = [t \in Threads |-> FALSE]
    /\ result = [t \in Threads |-> CommandResult("", "", "", 0, 0)]
    /\ mu = 0
    /\ heap = (1 :> [cap |-> TranscriptCap, data |-> <<>>])
    /\ transcript = [arr |-> 1, off |-> 0, len |-> 0, cap |-> TranscriptCap]
    /\ snapshots = <<>>
    /\ last = [t \in Threads |->
                  Finished(0, NoCall, CommandResult("", "", "", 0, 0), <<>>, <<>>)]
    /\ runs = [t \in Threads |-> <<>>]
    /\ recs = [t \in Threads |-> <<>>]
    /\ appended = <<>>
    /\ calls = 0
    /\ clears = 0

\* The App is new, the cluster has no pods, the clock reads one of NowSamples.
Init ==
    /\ NewApp
    /\ cluster = <<>>
    /\ clock \in NowSamples

\* Goroutine t enters command method c.op and runs it up to its return of an
\* invalidResult or up to its call of runKubectl.
Invoke(t, c) ==
    /\ pc[t] = "idle"
    /\ calls' = calls + 1
    /\ call' = [call EXCEPT ![t] = c]
    /\ runs' = [runs EXCEPT ![t] = <<>>]
    /\ recs' = [recs EXCEPT ![t] = <<>>]
    /\ proc' = [proc EXCEPT ![t] = NoProcess]
    /\ expired' = [expired EXCEPT ![t] = FALSE]
    /\ IF Prep(c).valid
       THEN /\ args' = [args EXCEPT ![t] = Prep(c).args]
            /\ timeout' = [timeout EXCEPT ![t] = Prep(c).timeout]
            /\ pc' = [pc EXCEPT ![t] = "run"]
            /\ UNCHANGED <<result, last>>
       ELSE /\ result' = [result EXCEPT ![t] = Prep(c).result]
            /\ last' = [last EXCEPT ![t] =
                           Finished(@.id + 1, c, Prep(c).result, <<>>, <<>>)]
            /\ UNCHANGED <<args, timeout, pc>>
    /\ UNCHANGED <<mu, transcript, heap, snapshots, appended, clears, cluster,
                   clock>>

\* runKubectl under a.mu, taken before the process starts
LaunchLocked(t) ==
    /\ pc[t] = "run"
    /\ mu = 0
    /\ mu' = t
    /\ runs' = [runs EXCEPT ![t] =
                   Append(@, [args |-> args[t], timeout |-> timeout[t]])]
    /\ proc' = [proc EXCEPT ![t] = Process("running", 0, "", "", 0)]
    /\ pc' = [pc EXCEPT ![t] = "wait"]
    /\ UNCHANGED <<call, args, timeout, expired, result, transcript, heap,
                   snapshots, last, recs, appended, calls, clears, cluster,
                   clock>>

\* runKubectl -> Runner.Run: exec.CommandContext and the start of cmd.Run.
Launch(t) ==
    /\ pc[t] = "run"
    /\ runs' = [runs EXCEPT ![t] =
                   Append(@, [args |-> args[t], timeout |-> timeout[t]])]
    /\ proc' = [proc EXCEPT ![t] = Process("running", 0, "", "", 0)]
    /\ pc' = [pc EXCEPT ![t] = "wait"]
    /\ UNCHANGED <<call, args, timeout, expired, result, mu, transcript, heap,
                   snapshots, last, recs, appended, calls, clears, cluster,
                   clock>>

\* Runner.Run whose cmd.Run cannot start the binary.
LaunchFail(t) ==
    /\ pc[t] = "run"
    /\ runs' = [runs EXCEPT ![t] =
                   Append(@, [args |-> args[t], timeout |-> timeout[t]])]
    /\ proc' = [proc EXCEPT ![t] = Process("failed", 0, "", "", 0)]
    /\ pc' = [pc EXCEPT ![t] = "ran"]
    /\ UNCHANGED <<call, args, timeout, expired, result, mu, transcript, heap,
                   snapshots, last, recs, appended, calls, clears, cluster,
                   clock>>

\* The process ends by itself before the deadline; cmd.Run returns.
ProcExit(t, code, out, err, ms) ==
    /\ pc[t] = "wait"
    /\ proc' = [proc EXCEPT ![t] = Process("exited", code, out, err, ms)]
    /\ pc' = [pc EXCEPT ![t] = "ran"]
    /\ UNCHANGED <<call, args, timeout, expired, result, mu, transcript, heap,
                   snapshots, last, runs, recs, appended, calls, clears,
                   cluster, clock>>

\* The deadline of runCtx passes while the process runs: exec kills it and
\* cmd.Run returns, with what the process had written.
DeadlineKill(t, out, err) ==
    /\ pc[t] = "wait"
    /\ expired' = [expired EXCEPT ![t] = TRUE]
    /\ proc' = [proc EXCEPT ![t] =
                   Process("killed", 0, out, err, timeout[t] * 1000)]
    /\ pc' = [pc EXCEPT ![t] = "ran"]
    /\ UNCHANGED <<call, args, timeout, result, mu, transcript, heap,
                   snapshots, last, runs, recs, appended, calls, clears,
                   cluster, clock>>

\* The deadline of runCtx passes while the process runs and exec kills it,
\* but a process it had started (kubectl runs credential plugins, which
\* inherit its stderr) still holds a write end of the pipes behind cmd.Stdout
\* and cmd.Stderr.  These are bytes.Buffers, not files, and cmd.WaitDelay is
\* zero: cmd.Run goes on reading the pipes until they are closed.
DeadlineKillHeld(t, out, err) ==
    /\ pc[t] = "wait"
    /\ expired' = [expired EXCEPT ![t] = TRUE]
    /\ proc' = [proc EXCEPT ![t] =
                   Process("killed", 0, out, err, timeout[t] * 1000)]
    /\ pc' = [pc EXCEPT ![t] = "drain"]
    /\ UNCHANGED <<call, args, timeout, result, mu, transcript, heap,
                   snapshots, last, runs, recs, appended, calls, clears,
                   cluster, clock>>

\* The last holder of the pipes closes them, ms milliseconds after the
\* deadline: cmd.Run returns.
PipesClosed(t, ms) ==
    /\ pc[t] = "drain"
    /\ proc' = [proc EXCEPT ![t].durationMs = @ + ms]
    /\ pc' = [pc EXCEPT ![t] = "ran"]
    /\ UNCHANGED <<call, args, timeout, expired, result, mu, transcript, heap,
                   snapshots, last, runs, recs, appended, calls, clears,
                   cluster, clock>>

\* a.ctx is canceled while the process runs: exec kills it and cmd.Run
\* returns; runCtx.Err() is context.Canceled from then on.
CancelKill(t, out, err, ms) ==
    /\ pc[t] = "wait"
    /\ proc' = [proc EXCEPT ![t] = Process("canceled", 0, out, err, ms)]
    /\ pc' = [pc EXCEPT ![t] = "ran"]
    /\ UNCHANGED <<call, args, timeout, expired, result, mu, transcript, heap,
                   snapshots, last, runs, recs, appended, calls, clears,
                   cluster, clock>>

\* The deadline of runCtx passes after cmd.Run has returned and before Run
\* reads runCtx.Err().
DeadlineLate(t) ==
    /\ pc[t] = "ran"
    /\ ~expired[t]
    /\ proc[t].state # "canceled"
    /\ expired' = [expired EXCEPT ![t] = TRUE]
    /\ UNCHANGED <<pc, call, args, timeout, proc, result, mu, transcript,
                   heap, snapshots, last, runs, recs, appended, calls, clears,
                   cluster, clock>>

\* The method calls runKubectl once more after a failure
RunReturnRetry(t) ==
    /\ pc[t] = "ran"
    /\ LET r == RunResult(args[t], proc[t], expired[t])
           again == r.ExitCode # 0 /\ Len(runs[t]) < 2
       IN  /\ result' = [result EXCEPT ![t] = r]
           /\ expired' = [expired EXCEPT ![t] = IF again THEN FALSE ELSE @]
           /\ pc' = [pc EXCEPT ![t] =
                        IF again THEN "run"
                        ELSE IF ShouldDecode(call[t].op, r) THEN "decode"
                        ELSE "record"]
    /\ UNCHANGED <<call, args, timeout, proc, mu, transcript, heap, snapshots,
                   last, runs, recs, appended, calls, clears, cluster, clock>>

\* The rest of Runner.Run, and the method up to its decoding or recording.
RunReturn(t) ==
    /\ pc[t] = "ran"
    /\ LET r == RunResult(args[t], proc[t], expired[t]) IN
       /\ result' = [result EXCEPT ![t] = r]
       /\ pc' = [pc EXCEPT ![t] =
                    IF ShouldDecode(call[t].op, r) THEN "decode"
                    ELSE "record"]
    /\ UNCHANGED <<call, args, timeout, proc, expired, mu, transcript, heap,
                   snapshots, last, runs, recs, appended, calls, clears,
                   cluster, clock>>

\* The decoder reads the text of the envelope recorded last
DecodeStale(t, now) ==
    /\ pc[t] = "decode"
    /\ LET text == IF appended = <<>> THEN result[t].Stdout
                   ELSE appended[Len(appended)].Stdout
           d == Decoded(call[t].op, [result[t] EXCEPT !.Stdout = text], now)
       IN  result' = [result EXCEPT ![t] = [d EXCEPT !.Stdout = result[t].Stdout]]
    /\ pc' = [pc EXCEPT ![t] = "record"]
    /\ UNCHANGED <<call, args, timeout, proc, expired, mu, transcript, heap,
                   snapshots, last, runs, recs, appended, calls, clears,
                   cluster, clock>>

\* The method decodes result.Stdout; now is the clock's reading.
Decode(t, now) ==
    /\ pc[t] = "decode"
    /\ result' = [result EXCEPT ![t] = Decoded(call[t].op, @, now)]
    /\ pc' = [pc EXCEPT ![t] = "record"]
    /\ UNCHANGED <<call, args, timeout, proc, expired, mu, transcript, heap,
                   snapshots, last, runs, recs, appended, calls, clears,
                   cluster, clock>>

\* App.record: a.mu.Lock()
RecordLock(t) ==
    /\ pc[t] = "record"
    /\ mu = 0
    /\ mu' = t
    /\ pc' = [pc EXCEPT ![t] = "append"]
    /\ UNCHANGED <<call, args, timeout, proc, expired, result, transcript,
                   heap, snapshots, last, runs, recs, appended, calls, clears,
                   cluster, clock>>

\* App.record handed the envelope as the Runner returned it, without the
\* parsed data
RecordAppendRaw(t) ==
    /\ pc[t] = "append"
    /\ LET raw == [result[t] EXCEPT !.ParsedData = Nil]
           a == AppendSlice(heap, transcript, raw)
       IN /\ transcript' = a.slice
          /\ heap' = Collect(a.heap, <<a.slice>> \o snapshots)
          /\ recs' = [recs EXCEPT ![t] = Append(@, raw)]
          /\ appended' = Append(appended, raw)
    /\ pc' = [pc EXCEPT ![t] = "truncate"]
    /\ UNCHANGED <<call, args, timeout, proc, expired, result, mu, snapshots,
                   last, runs, calls, clears, cluster, clock>>

\* App.record that puts the envelope in front
RecordAppendFront(t) ==
    /\ pc[t] = "append"
    /\ LET id == NewArray(heap)
           front == [arr |-> id, off |-> 0, len |-> transcript.len + 1,
                     cap |-> transcript.len + 1]
           h == heap @@ (id :> [cap |-> transcript.len + 1,
                                data |-> <<result[t]>>
                                             \o Elems(heap, transcript)])
       IN /\ transcript' = front
          /\ heap' = Collect(h, <<front>> \o snapshots)
    /\ recs' = [recs EXCEPT ![t] = Append(@, result[t])]
    /\ appended' = Append(appended, result[t])
    /\ pc' = [pc EXCEPT ![t] = "truncate"]
    /\ UNCHANGED <<call, args, timeout, proc, expired, result, mu, snapshots,
                   last, runs, calls, clears, cluster, clock>>

\* App.record that drops the envelope once the transcript has been cleared
RecordAppendUnlessCleared(t) ==
    /\ pc[t] = "append"
    /\ LET a == AppendSlice(heap, transcript, result[t]) IN
       IF clears > 0
       THEN UNCHANGED <<transcript, heap, recs, appended>>
       ELSE /\ transcript' = a.slice
            /\ heap' = Collect(a.heap, <<a.slice>> \o snapshots)
            /\ recs' = [recs EXCEPT ![t] = Append(@, result[t])]
            /\ appended' = Append(appended, result[t])
    /\ pc' = [pc EXCEPT ![t] = "truncate"]
    /\ UNCHANGED <<call, args, timeout, proc, expired, result, mu, snapshots,
                   last, runs, calls, clears, cluster, clock>>

\* App.record: a.transcript = append(a.transcript, result)
RecordAppend(t) ==
    /\ pc[t] = "append"
    /\ LET a == AppendSlice(heap, transcript, result[t]) IN
       /\ transcript' = a.slice
       /\ heap' = Collect(a.heap, <<a.slice>> \o snapshots)
    /\ recs' = [recs EXCEPT ![t] = Append(@, result[t])]
    /\ appended' = Append(appended, result[t])
    /\ pc' = [pc EXCEPT ![t] = "truncate"]
    /\ UNCHANGED <<call, args, timeout, proc, expired, result, mu, snapshots,
                   last, runs, calls, clears, cluster, clock>>

\* App.record: the truncation to the last 200, and the deferred Unlock.
RecordTruncate(t) ==
    /\ pc[t] = "truncate"
    /\ transcript' = IF transcript.len > TranscriptCap
                     THEN SliceFrom(transcript, transcript.len - TranscriptCap)
                     ELSE transcript
    /\ mu' = 0
    /\ pc' = [pc EXCEPT ![t] = "return"]
    /\ UNCHANGED <<call, args, timeout, proc, expired, result, heap,
                   snapshots, last, runs, recs, appended, calls, clears,
                   cluster, clock>>

\* The method returns result.
Return(t) ==
    /\ pc[t] = "return"
    /\ last' = [last EXCEPT ![t] =
                   Finished(@.id + 1, call[t], result[t], runs[t], recs[t])]
    /\ pc' = [pc EXCEPT ![t] = "idle"]
    /\ UNCHANGED <<call, args, timeout, proc, expired, result, mu, transcript,
                   heap, snapshots, runs, recs, appended, calls, clears,
                   cluster, clock>>

\* GetTranscript that does not wait for a.mu
GetLockFree(t) ==
    /\ pc[t] = "idle"
    /\ mu' = t
    /\ pc' = [pc EXCEPT ![t] = "copy"]
    /\ UNCHANGED <<call, args, timeout, proc, expired, result, transcript,
                   heap, snapshots, last, runs, recs, appended, calls, clears,
                   cluster, clock>>

\* App.GetTranscript: a.mu.Lock()
GetLock(t) ==
    /\ pc[t] = "idle"
    /\ mu = 0
    /\ mu' = t
    /\ pc' = [pc EXCEPT ![t] = "copy"]
    /\ UNCHANGED <<call, args, timeout, proc, expired, result, transcript,
                   heap, snapshots, last, runs, recs, appended, calls, clears,
                   cluster, clock>>

\* App.GetTranscript: the copy, the deferred Unlock and the return.
GetCopy(t) ==
    /\ pc[t] = "copy"
    /\ LET c == CopySlice(heap, transcript) IN
       /\ heap' = c.heap
       /\ snapshots' = Append(snapshots, c.slice)
    /\ mu' = 0
    /\ pc' = [pc EXCEPT ![t] = "idle"]
    /\ UNCHANGED <<call, args, timeout, proc, expired, result, transcript,
                   last, runs, recs, appended, calls, clears, cluster, clock>>

\* App.ClearTranscript: a.mu.Lock()
ClearLock(t) ==
    /\ pc[t] = "idle"
    /\ mu = 0
    /\ mu' = t
    /\ pc' = [pc EXCEPT ![t] = "clear"]
    /\ UNCHANGED <<call, args, timeout, proc, expired, result, transcript,
                   heap, snapshots, last, runs, recs, appended, calls, clears,
                   cluster, clock>>

\* App.ClearTranscript: a.transcript = a.transcript[:0], and the Unlock.
ClearDo(t) ==
    /\ pc[t] = "clear"
    /\ transcript' = SliceToZero(transcript)
    /\ appended' = <<>>
    /\ clears' = clears + 1
    /\ mu' = 0
    /\ pc' = [pc EXCEPT ![t] = "idle"]
    /\ UNCHANGED <<call, args, timeout, proc, expired, result, heap,
                   snapshots, last, runs, recs, calls, cluster, clock>>

\* A day passes on the wall clock, up to limit days after the start.
Tick(limit) ==
    /\ \E k \in NowSamples : Since(clock, k) < limit * 86400
    /\ clock' = [clock EXCEPT !.day = @ + 1]
    /\ UNCHANGED <<pc, call, args, timeout, proc, expired, result, mu,
                   transcript, heap, snapshots, last, runs, recs, appended,
                   calls, clears, cluster>>

-----------------------------------------------------------------------------
(* The inputs and the outputs of the external process the model draws.     *)

ContextsJSON ==
    "{\"kind\":\"Config\",\"contexts\":[{\"name\":\"dev\"},{\"name\":\"\"},{\"name\":\"prod\"}]}"

NamespacesJSON ==
    "{\"items\":[{\"metadata\":{\"name\":\"default\"}},{\"metadata\":{}},{\"metadata\":{\"name\":\"kube-system\"}}]}"

PodsJSON ==
    "{\"items\":[{\"metadata\":{\"name\":\"web-1\",\"creationTimestamp\":\"2024-03-09T11:00:00Z\",\"ownerReferences\":[{\"kind\":\"ReplicaSet\"}]},\"status\":{\"phase\":\"Running\",\"nodeName\":\"n1\",\"containerStatuses\":[{\"ready\":true,\"restartCount\":2,\"state\":{\"running\":{}}},{\"ready\":false,\"restartCount\":3,\"state\":{\"waiting\":{\"reason\":\"CrashLoopBackOff\"}}}]}}]}"

TruncatedJSON == "{\"items\":[{\"metadata\":"

MistypedJSON == "{\"items\":{},\"contexts\":7}"

StdoutSamples ==
    {"", "dev\n", ContextsJSON, NamespacesJSON, PodsJSON, TruncatedJSON,
     MistypedJSON}

StderrSamples == {"", "error: the server is unreachable\n"}

ExitCodes == {0, 1, 2}

DurationSamples == {12}

NameSamples ==
    {"", "a", "-a", "a-", "Web", "a.b", Repeat("a", MaxNameLen),
     Repeat("a", MaxNameLen + 1)}

ContextSamples ==
    {"", "-dev", "a b", ".dev", "gke_p:z@h/c-1.x", "dev;ls",
     Repeat("c", MaxNameLen), Repeat("c", MaxNameLen + 1)}

TailSamples == {-5, 0, 1, 250}

AllCalls ==
    {Call("ListContexts", "", "", "", 0), Call("GetCurrentContext", "", "", "", 0)}
    \cup {Call("SetContext", c, "", "", 0) : c \in ContextSamples}
    \cup {Call("ListNamespaces", c, "", "", 0) : c \in ContextSamples}
    \cup {Call("ListPods", c, n, "", 0) : c \in ContextSamples, n \in NameSamples}
    \cup {Call(op, c, n, p, 0) : op \in {"DeletePod", "DescribePod"},
                                 c \in ContextSamples, n \in NameSamples,
                                 p \in NameSamples}
    \cup {Call("GetPodLogs", c, n, p, k) : c \in ContextSamples, n \in NameSamples,
                                          p \in NameSamples, k \in TailSamples}

\* The calls of the concurrent runs.
FewCalls ==
    {Call("GetCurrentContext", "", "", "", 0),
     Call("DeletePod", "dev", "default", "-a", 0)}

-----------------------------------------------------------------------------
(* Spec: goroutines call the methods of one App concurrently.  A process   *)
(* either prints the context and exits with 0 or runs into the deadline;   *)
(* SpecCall has the other outcomes.                                        *)

MaxCalls == 2
MaxSnapshots == 1
MaxClears == 1

Next ==
    \/ \E t \in Threads, c \in FewCalls : calls < MaxCalls /\ Invoke(t, c)
    \/ \E t \in Threads : Launch(t)
    \/ \E t \in Threads, ms \in DurationSamples :
           ProcExit(t, 0, "dev\n", "", ms)
    \/ \E t \in Threads : DeadlineKill(t, "", "")
    \/ \E t \in Threads : RunReturn(t)
    \/ \E t \in Threads, now \in NowSamples : Decode(t, now)
    \/ \E t \in Threads : RecordLock(t)
    \/ \E t \in Threads : RecordAppend(t)
    \/ \E t \in Threads : RecordTruncate(t)
    \/ \E t \in Threads : Return(t)
    \/ \E t \in Threads : Len(snapshots) < MaxSnapshots /\ GetLock(t)
    \/ \E t \in Threads : GetCopy(t)
    \/ \E t \in Threads : clears < MaxClears /\ ClearLock(t)
    \/ \E t \in Threads : ClearDo(t)

Spec == Init /\ [][Next]_vars

-----------------------------------------------------------------------------
(* SpecCall: one goroutine makes one call, with any of the sampled inputs  *)
(* and any of the sampled behaviours of the external process.              *)

NextCall ==
    \/ \E c \in AllCalls : calls = 0 /\ Invoke(1, c)
    \/ Launch(1)
    \/ LaunchFail(1)
    \/ \E code \in ExitCodes, out \in StdoutSamples, err \in StderrSamples,
          ms \in DurationSamples : ProcExit(1, code, out, err, ms)
    \/ \E out \in {"", TruncatedJSON}, err \in StderrSamples :
           DeadlineKill(1, out, err)
    \/ \E ms \in DurationSamples : CancelKill(1, "", "", ms)
    \/ DeadlineLate(1)
    \/ RunReturn(1)
    \/ \E now \in NowSamples : Decode(1, now)
    \/ RecordLock(1)
    \/ RecordAppend(1)
    \/ RecordTruncate(1)
    \/ Return(1)

SpecCall == Init /\ [][NextCall]_vars

-----------------------------------------------------------------------------
(* SpecFIFO: one goroutine makes MaxAppends calls of GetCurrentContext in  *)
(* a row; the n-th process prints "ctx-n", so that no two envelopes of the *)
(* transcript are equal.                                                   *)

MaxAppends == 205

NextFIFO ==
    \/ calls < MaxAppends /\ Invoke(1, Call("GetCurrentContext", "", "", "", 0))
    \/ Launch(1)
    \/ ProcExit(1, 0, "ctx-" \o FormatNat(calls) \o "\n", "", calls)
    \/ RunReturn(1)
    \/ \E now \in NowSamples : Decode(1, now)
    \/ RecordLock(1)
    \/ RecordAppend(1)
    \/ RecordTruncate(1)
    \/ Return(1)

SpecFIFO == Init /\ [][NextFIFO]_vars

-----------------------------------------------------------------------------
(* SpecFull: goroutine 1 makes Warm calls of GetCurrentContext in a row,   *)
(* which leave the transcript one envelope short of its bound, and then    *)
(* MaxCalls more; from the last of the Warm calls on, the other goroutines *)
(* take snapshots and clear the transcript while goroutine 1 goes on.  The *)
(* n-th process prints "ctx-n".                                            *)

Warm == TranscriptCap - 1

NextFull ==
    \/ /\ calls < Warm + MaxCalls
       /\ Invoke(1, Call("GetCurrentContext", "", "", "", 0))
    \/ Launch(1)
    \/ ProcExit(1, 0, "ctx-" \o FormatNat(calls) \o "\n", "", calls)
    \/ RunReturn(1)
    \/ \E now \in NowSamples : Decode(1, now)
    \/ RecordLock(1)
    \/ RecordAppend(1)
    \/ RecordTruncate(1)
    \/ Return(1)
    \/ \E t \in Threads \ {1} :
           calls >= Warm /\ Len(snapshots) < MaxSnapshots /\ GetLock(t)
    \/ \E t \in Threads : GetCopy(t)
    \/ \E t \in Threads \ {1} :
           calls >= Warm /\ clears < MaxClears /\ ClearLock(t)
    \/ \E t \in Threads : ClearDo(t)

SpecFull == Init /\ [][NextFull]_vars

-----------------------------------------------------------------------------
(* SpecClear: one goroutine makes MaxAppends calls of GetCurrentContext in *)
(* a row, as in SpecFIFO, and between two calls it may clear a transcript  *)
(* of one of the lengths ClearPoints, and take a snapshot before the       *)
(* second append that follows a clear.                                     *)

ClearPoints == {3, TranscriptCap}

NextClear ==
    \/ calls < MaxAppends /\ Invoke(1, Call("GetCurrentContext", "", "", "", 0))
    \/ Launch(1)
    \/ ProcExit(1, 0, "ctx-" \o FormatNat(calls) \o "\n", "", calls)
    \/ RunReturn(1)
    \/ \E now \in NowSamples : Decode(1, now)
    \/ RecordLock(1)
    \/ RecordAppend(1)
    \/ RecordTruncate(1)
    \/ Return(1)
    \/ clears < MaxClears /\ transcript.len \in ClearPoints /\ ClearLock(1)
    \/ ClearDo(1)
    \/ /\ Len(snapshots) < MaxSnapshots
       /\ clears > 0
       /\ Len(appended) <= 1
       /\ GetLock(1)
    \/ GetCopy(1)

SpecClear == Init /\ [][NextClear]_vars

-----------------------------------------------------------------------------
(* SpecOrder: goroutine 1 is dispatched first, with DescribePod, and       *)
(* goroutine 2 after it, with GetCurrentContext; the two calls run         *)
(* concurrently.  A goroutine that is idle may clear the transcript, and   *)
(* begins to do so only while a process is running.                        *)

FirstCall == Call("DescribePod", "", "default", "web-1", 0)
SecondCall == Call("GetCurrentContext", "", "", "", 0)

NextOrder ==
    \/ calls = 0 /\ Invoke(1, FirstCall)
    \/ calls = 1 /\ Invoke(2, SecondCall)
    \/ \E t \in Threads : Launch(t)
    \/ \E t \in Threads, ms \in DurationSamples :
           ProcExit(t, 0, "dev\n", "", ms)
    \/ \E t \in Threads : DeadlineKill(t, "", "")
    \/ \E t \in Threads : RunReturn(t)
    \/ \E t \in Threads, now \in NowSamples : Decode(t, now)
    \/ \E t \in Threads : RecordLock(t)
    \/ \E t \in Threads : RecordAppend(t)
    \/ \E t \in Threads : RecordTruncate(t)
    \/ \E t \in Threads : Return(t)
    \/ \E t \in Threads :
           /\ clears < MaxClears
           /\ \E u \in Threads : pc[u] = "wait"
           /\ ClearLock(t)
    \/ \E t \in Threads : ClearDo(t)

SpecOrder == Init /\ [][NextOrder]_vars

-----------------------------------------------------------------------------
(* The cluster: a sequence of pods, each with the fields kubectl prints    *)
(* that the pod decoder reads.  The state of a container has a waiting and *)
(* a terminated part, each absent or with a reason (an empty reason is not  *)
(* printed).  created is the creation timestamp as kubectl prints it.      *)

Absent == [present |-> FALSE, reason |-> ""]
Reason(r) == [present |-> TRUE, reason |-> r]

Container(ready, restartCount, waiting, terminated) ==
    [ready |-> ready, restartCount |-> restartCount, waiting |-> waiting,
     terminated |-> terminated]

ClusterPod(name, created, phase, reason, containers) ==
    [name |-> name, created |-> created, phase |-> phase, reason |-> reason,
     containers |-> containers]

\* What kubectl get pods -o json prints for the cluster.
RenderReason(st) ==
    IF st.reason = "" THEN "{}" ELSE "{\"reason\":\"" \o st.reason \o "\"}"

RenderState(c) ==
    LET w == IF c.waiting.present
             THEN <<"\"waiting\":" \o RenderReason(c.waiting)>> ELSE <<>>
        t == IF c.terminated.present
             THEN <<"\"terminated\":" \o RenderReason(c.terminated)>> ELSE <<>>
    IN  IF w \o t = <<>> THEN "{\"running\":{}}"
        ELSE "{" \o Join(w \o t, ",") \o "}"

RenderContainer(c) ==
    "{\"ready\":" \o (IF c.ready THEN "true" ELSE "false")
        \o ",\"restartCount\":" \o ToString(c.restartCount)
        \o ",\"state\":" \o RenderState(c) \o "}"

RenderPod(p) ==
    "{\"metadata\":{\"name\":\"" \o p.name \o "\""
        \o (IF p.created # ""
            THEN ",\"creationTimestamp\":\"" \o p.created \o "\"" ELSE "")
        \o "},\"status\":{\"phase\":\"" \o p.phase \o "\""
        \o (IF p.reason # "" THEN ",\"reason\":\"" \o p.reason \o "\"" ELSE "")
        \o (IF p.containers # <<>>
            THEN ",\"containerStatuses\":["
                     \o Join([i \in 1..Len(p.containers) |->
                                 RenderContainer(p.containers[i])], ",")
                     \o "]"
            ELSE "")
        \o "}}"

RenderPods(c) ==
    "{\"items\":[" \o Join([i \in 1..Len(c) |-> RenderPod(c[i])], ",") \o "]}"

ContainerSamples ==
    {Container(TRUE, 0, Absent, Absent),
     Container(FALSE, 3, Reason("CrashLoopBackOff"), Absent),
     Container(FALSE, 1, Absent, Reason("OOMKilled")),
     Container(FALSE, 0, Reason(""), Absent),
     Container(TRUE, 2, Absent, Reason("")),
     Container(FALSE, 0, Reason("ContainerCreating"), Reason("Error")),
     Container(FALSE, 0, Reason("PodInitializing"), Reason("")),
     Container(FALSE, 0, Reason(""), Reason("Completed"))}

MaxContainers == 2

ContainerLists == UNION {[1..n -> ContainerSamples] : n \in 0..MaxContainers}

CreatedSample == "2024-03-09T11:00:00Z"

\* The clusters with one pod, of any sampled phase, reason and containers
StatusClusters ==
    {<<ClusterPod("web-1", CreatedSample, ph[1], ph[2], cs)>> :
        ph \in {<<"Running", "">>, <<"Failed", "Evicted">>},
        cs \in ContainerLists}

\* The instant d seconds after at
After(at, d) ==
    [day |-> at.day + (at.sod + d) \div 86400, sod |-> (at.sod + d) % 86400]

MaxSmallAge == 125

\* Ages in seconds: the first ones, and those around the bounds of the
\* buckets and their multiples.
AgeSamples ==
    (0..MaxSmallAge)
    \cup {3599, 3600, 3601, 7199, 7200, 86399, 86400, 90000, 172799, 172800,
          604799, 604800, 864000, 1209599, 1209600, 2591999, 2592000,
          3456000, 5183999, 5184000, 31536000}

\* A world: what the cluster holds and what the clock reads.
World(c, k) == [cluster |-> c, clock |-> k]

Worlds ==
    {World(c, k) : c \in StatusClusters, k \in NowSamples}
    \cup {World(<<ClusterPod("web-1", CreatedSample, "Running", "", <<>>)>>,
                After(ParseTime(CreatedSample).at, d)) : d \in AgeSamples}

-----------------------------------------------------------------------------
(* SpecPods: one goroutine lists the pods of a sampled world once;         *)
(* kubectl prints the cluster and the decoder reads the clock.             *)

InitPods ==
    /\ NewApp
    /\ \E w \in Worlds : cluster = w.cluster /\ clock = w.clock

NextPods ==
    \/ calls = 0 /\ Invoke(1, Call("ListPods", "", "a", "", 0))
    \/ Launch(1)
    \/ \E ms \in DurationSamples : ProcExit(1, 0, RenderPods(cluster), "", ms)
    \/ RunReturn(1)
    \/ Decode(1, clock)
    \/ RecordLock(1)
    \/ RecordAppend(1)
    \/ RecordTruncate(1)
    \/ Return(1)

SpecPods == InitPods /\ [][NextPods]_vars

-----------------------------------------------------------------------------
(* SpecNames: one goroutine lists the namespaces or the contexts once; the *)
(* cluster is a sequence of names, some of them empty or repeated, which   *)
(* kubectl prints in the format of the call.                               *)

MaxNames == 3

NameElems == {"", "a", "b"}

NameLists == UNION {[1..n -> NameElems] : n \in 0..MaxNames}

\* kubectl get ns -o json; a namespace without a name has no name member
RenderNamespace(n) ==
    IF n = "" THEN "{\"metadata\":{}}"
    ELSE "{\"metadata\":{\"name\":\"" \o n \o "\"}}"

RenderNamespaces(c) ==
    "{\"items\":[" \o Join([i \in 1..Len(c) |-> RenderNamespace(c[i])], ",")
        \o "]}"

\* kubectl config view -o json
RenderContexts(c) ==
    "{\"kind\":\"Config\",\"contexts\":["
        \o Join([i \in 1..Len(c) |-> "{\"name\":\"" \o c[i] \o "\"}"], ",")
        \o "]}"

Rendered(op, c) ==
    IF op = "ListContexts" THEN RenderContexts(c) ELSE RenderNamespaces(c)

InitNames ==
    /\ NewApp
    /\ cluster \in NameLists
    /\ clock \in NowSamples

NextNames ==
    \/ \E op \in {"ListContexts", "ListNamespaces"} :
           calls = 0 /\ Invoke(1, Call(op, "", "", "", 0))
    \/ Launch(1)
    \/ \E ms \in DurationSamples :
           ProcExit(1, 0, Rendered(call[1].op, cluster), "", ms)
    \/ RunReturn(1)
    \/ Decode(1, clock)
    \/ RecordLock(1)
    \/ RecordAppend(1)
    \/ RecordTruncate(1)
    \/ Return(1)

SpecNames == InitNames /\ [][NextNames]_vars

-----------------------------------------------------------------------------
(* SpecDecode: one goroutine makes MaxDecodes list calls in a row, while   *)
(* the clock goes on; kubectl prints any of the sampled texts.             *)

MaxDecodes == 3
MaxTicks == 1

DecodeCalls ==
    {Call("ListContexts", "", "", "", 0), Call("ListNamespaces", "", "", "", 0),
     Call("ListPods", "", "a", "", 0)}

DecodeTexts == {ContextsJSON, PodsJSON}

NextDecode ==
    \/ \E c \in DecodeCalls : calls < MaxDecodes /\ Invoke(1, c)
    \/ Launch(1)
    \/ \E out \in DecodeTexts, ms \in DurationSamples :
           ProcExit(1, 0, out, "", ms)
    \/ RunReturn(1)
    \/ Decode(1, clock)
    \/ RecordLock(1)
    \/ RecordAppend(1)
    \/ RecordTruncate(1)
    \/ Return(1)
    \/ Tick(MaxTicks)

SpecDecode == Init /\ [][NextDecode]_vars

-----------------------------------------------------------------------------
(* SpecLive: goroutines call methods whose process may never exit by       *)
(* itself.  Fairness: a goroutine that can take a step of its method takes *)
(* one (the Go scheduler), the timer of context.WithTimeout fires, and a   *)
(* goroutine that waits for a.mu gets it (sync.Mutex hands the lock to a   *)
(* starving waiter).  Nothing makes a process exit or close its pipes.     *)

LiveCalls ==
    {Call("GetCurrentContext", "", "", "", 0), Call("DeletePod", "", "a", "a", 0)}

NextLive ==
    \/ \E t \in Threads, c \in LiveCalls : calls < MaxCalls /\ Invoke(t, c)
    \/ \E t \in Threads : Launch(t)
    \/ \E t \in Threads, code \in {0, 1}, ms \in DurationSamples :
           ProcExit(t, code, "dev\n", "", ms)
    \/ \E t \in Threads : DeadlineKill(t, "", "")
    \/ \E t \in Threads : DeadlineKillHeld(t, "", "")
    \/ \E t \in Threads, ms \in DurationSamples : PipesClosed(t, ms)
    \/ \E t \in Threads : RunReturn(t)
    \/ \E t \in Threads, now \in NowSamples : Decode(t, now)
    \/ \E t \in Threads : RecordLock(t)
    \/ \E t \in Threads : RecordAppend(t)
    \/ \E t \in Threads : RecordTruncate(t)
    \/ \E t \in Threads : Return(t)

\* The steps goroutine t takes by itself or the timer takes for it.
Progress(t) ==
    \/ Launch(t)
    \/ DeadlineKill(t, "", "")
    \/ DeadlineKillHeld(t, "", "")
    \/ RunReturn(t)
    \/ \E now \in NowSamples : Decode(t, now)
    \/ RecordAppend(t)
    \/ RecordTruncate(t)
    \/ Return(t)

SpecLive ==
    /\ Init
    /\ [][NextLive]_vars
    /\ \A t \in Threads : WF_vars(Progress(t)) /\ SF_vars(RecordLock(t))

-----------------------------------------------------------------------------
(* The properties.  last[t] is the last call goroutine t has returned from  *)
(* (id 0: none yet): its inputs, the envelope it returned, the Runner       *)
(* invocations it made and the envelopes it appended to the transcript.     *)
(* While pc[t] = "idle" and last[t].id > 0, proc[t] is the process of that  *)
(* call.                                                                    *)

PodOps == {"DeletePod", "GetPodLogs", "DescribePod"}
NamespaceOps == PodOps \cup {"ListPods"}
ContextOps == NamespaceOps \cup {"SetContext", "ListNamespaces"}
ListOps == {"ListContexts", "ListNamespaces", "ListPods"}

\* A DNS-1123 label: lowercase alphanumerics and hyphens, no hyphen first or
\* last.
IsDNS1123Label(s) ==
    /\ s # ""
    /\ \A i \in 1..Len(s) : Char(s, i) \in Lower \cup Digit \cup {"-"}
    /\ Char(s, 1) # "-"
    /\ Char(s, Len(s)) # "-"

ViolatesLabelRule(s) == s = "" \/ Len(s) > 253 \/ ~IsDNS1123Label(s)

SafeCharacters == Lower \cup Upper \cup Digit \cup {".", "_", ":", "@", "/", "-"}

ViolatesContextRule(s) ==
    /\ s # ""
    /\ \/ Char(s, 1) = "-"
       \/ Len(s) > 253
       \/ \E i \in 1..Len(s) : Char(s, i) \notin SafeCharacters

\* The message of the first validation a call fails, the context name being
\* validated last.
FirstValidationMessage(c) ==
    IF c.op \in NamespaceOps /\ c.namespace = "" THEN "namespace is required"
    ELSE IF c.op \in NamespaceOps /\ ViolatesLabelRule(c.namespace)
    THEN "invalid namespace name"
    ELSE IF c.op \in PodOps /\ c.name = "" THEN "pod name is required"
    ELSE IF c.op \in PodOps /\ ViolatesLabelRule(c.name) THEN "invalid pod name"
    ELSE "invalid context name"

\* C1: a call of DeletePod, GetPodLogs or DescribePod whose namespace or pod
\* name is empty, longer than 253 characters or not a DNS-1123 label has
\* returned an envelope with exitCode -1, and the Runner was invoked zero
\* times during the call, whatever the context name.
LabelViolationRejected ==
    \A t \in Threads :
        /\ call[t].op \in PodOps
        /\ ViolatesLabelRule(call[t].namespace) \/ ViolatesLabelRule(call[t].name)
        => /\ pc[t] = "idle"
           /\ runs[t] = <<>>
           /\ last[t].call = call[t]
           /\ last[t].runs = <<>>
           /\ last[t].result.ExitCode = -1

LabelViolationRejectedWitness ==
    /\ last[1].id = 1
    /\ last[1].call = Call("GetPodLogs", "gke_p:z@h/c-1.x", "a", "a-", 250)
    /\ last[1].result.ExitCode = -1
    /\ last[1].runs = <<>>

\* C2: a call of an operation that takes a context name, with a context
\* name that is non-empty and starts with "-", contains a character outside
\* the safe set or is longer than 253 characters, has returned an envelope
\* with exitCode -1, empty stdout, the validation message as stderr and no
\* parsedData, and never invoked the Runner.
ContextViolationRejected ==
    \A t \in Threads :
        /\ call[t].op \in ContextOps
        /\ ViolatesContextRule(call[t].contextName)
        => /\ pc[t] = "idle"
           /\ runs[t] = <<>>
           /\ last[t].call = call[t]
           /\ last[t].runs = <<>>
           /\ last[t].result.ExitCode = -1
           /\ last[t].result.Stdout = ""
           /\ last[t].result.Stderr = FirstValidationMessage(call[t])
           /\ last[t].result.ParsedData.isNil

ContextViolationRejectedWitness ==
    /\ last[1].id = 1
    /\ last[1].call = Call("ListPods", Repeat("c", 254), "a", "", 0)
    /\ last[1].result.Stderr = "invalid context name"
    /\ last[1].runs = <<>>

\* C3: every call of a command method that has returned, whatever its
\* outcome and also when its input failed validation, has appended the
\* envelope it returned to the transcript.
EveryCallRecorded ==
    \A t \in Threads : last[t].id > 0 => last[t].recs = <<last[t].result>>

\* The sequence the claim fixes for each operation
FixedSequence(c) ==
    CASE c.op = "ListNamespaces" -> <<"get", "ns", "-o", "json">>
      [] c.op = "ListPods" -> <<"get", "pods", "-n", c.namespace, "-o", "json">>
      [] c.op = "DeletePod" -> <<"delete", "pod", c.name, "-n", c.namespace>>
      [] c.op = "GetPodLogs" ->
             <<"logs", c.name, "-n", c.namespace,
               "--tail=" \o ToString(IF c.tail > 0 THEN c.tail ELSE 100)>>
      [] c.op = "DescribePod" -> <<"describe", "pod", c.name, "-n", c.namespace>>

\* C4: the argument vector a call of ListNamespaces, ListPods, DeletePod,
\* GetPodLogs or DescribePod hands to the Runner is the operation's fixed
\* sequence, preceded by --context <name> exactly when the context name is
\* not empty; a call hands the Runner one vector.
ArgumentVectorExact ==
    \A t \in Threads :
        call[t].op \in NamespaceOps \cup {"ListNamespaces"} /\ runs[t] # <<>>
        => /\ Len(runs[t]) = 1
           /\ runs[t][1].args =
                  (IF call[t].contextName # ""
                   THEN <<"--context", call[t].contextName>> ELSE <<>>)
                  \o FixedSequence(call[t])

ArgumentVectorExactWitness ==
    /\ call[1] = Call("GetPodLogs", "gke_p:z@h/c-1.x", "a", "a", 250)
    /\ Len(runs[1]) = 1
    /\ runs[1][1].args[1] = "--context"
    /\ pc[1] = "wait"

LastN(seq, n) == SubSeq(seq, Len(seq) - n + 1, Len(seq))

\* C5: outside record, after n appends since the last clear the transcript
\* holds the last min(n, 200) appended envelopes, in the order of their
\* appends.
TranscriptFIFO ==
    mu = 0 =>
        Elems(heap, transcript) =
            LastN(appended, IF Len(appended) < 200 THEN Len(appended) ELSE 200)

TranscriptFIFOWitness ==
    /\ mu = 0
    /\ Len(appended) = 205
    /\ transcript.len = 200
    /\ Elems(heap, transcript)[1].Stdout = "ctx-6\n"

\* The sampled outputs that are not JSON of the shape the decoders expect
Undecodable == {"", "dev\n", TruncatedJSON, MistypedJSON}

\* C6: a call of ListContexts, ListNamespaces or ListPods whose process
\* exited with code 0 and printed text that does not decode has returned an
\* envelope with exitCode 0, the stdout of the process, the stderr of the
\* process followed by a line "parse error: <detail>", and no parsedData.
DecodeFailureKeepsOutput ==
    \A t \in Threads :
        /\ pc[t] = "idle"
        /\ last[t].id > 0
        /\ last[t].call.op \in ListOps
        /\ proc[t].state = "exited"
        /\ proc[t].code = 0
        /\ proc[t].stdout \in Undecodable
        => LET r == last[t].result
               line == (IF proc[t].stderr = "" THEN "" ELSE proc[t].stderr \o "\n")
                           \o "parse error: "
           IN  /\ r.ExitCode = 0
               /\ r.Stdout = proc[t].stdout
               /\ HasPrefix(r.Stderr, line)
               /\ Len(r.Stderr) > Len(line)
               /\ r.ParsedData.isNil

\* C7: a call whose process was still running at the Runner's deadline, and
\* had written nothing to stderr, has returned an envelope with a non-zero
\* exitCode and stderr "command timed out".
TimeoutReported ==
    \A t \in Threads :
        /\ pc[t] = "idle"
        /\ last[t].id > 0
        /\ proc[t].state = "killed"
        /\ proc[t].stderr = ""
        => /\ last[t].result.ExitCode # 0
           /\ last[t].result.Stderr = "command timed out"

TimeoutReportedWitness ==
    /\ pc[1] = "idle"
    /\ last[1].id = 1
    /\ last[1].call.op = "ListPods"
    /\ proc[1].state = "killed"
    /\ proc[1].stdout = TruncatedJSON
    /\ proc[1].stderr = ""
    /\ last[1].result.ExitCode = -1

ParsedOnlyOnSuccess(r) == ~r.ParsedData.isNil => r.ExitCode = 0

LockOnlyInMemory ==
    /\ mu \in {0} \cup Threads
    /\ \A t \in Threads :
           mu = t => pc[t] \in {"append", "truncate", "copy", "clear"}

LockOnlyInMemoryWitness ==
    /\ pc[1] = "wait"
    /\ pc[2] = "wait"
    /\ proc[1].state = "running"
    /\ proc[2].state = "running"
    /\ mu = 0

\* C11: a call that passes validation runs the Runner exactly once: never a
\* second time, whether the process exits with 0 or not, is killed at the
\* deadline, cannot be started or prints text that does not decode; a call
\* that has returned after passing validation has run it once.
OneRunPerCall ==
    \A t \in Threads :
        /\ Len(runs[t]) <= 1
        /\ last[t].id > 0 /\ Prep(last[t].call).valid => Len(last[t].runs) = 1

OneRunPerCallWitness ==
    /\ pc[1] = "idle"
    /\ last[1].id = 1
    /\ last[1].call.op = "DeletePod"
    /\ proc[1].state = "exited"
    /\ proc[1].code = 1
    /\ last[1].result.ExitCode = 1
    /\ Len(last[1].runs) = 1

\* C12: the envelope of a call that reached the Runner has exitCode 0
\* exactly when the process exited with status 0, the status of the process
\* when it exited by itself, and -1 when it could not be started or was
\* killed because the context was canceled.
ExitCodeExtraction ==
    \A t \in Threads :
        pc[t] = "idle" /\ last[t].id > 0 /\ last[t].runs # <<>> =>
            /\ last[t].result.ExitCode = 0
                   <=> (proc[t].state = "exited" /\ proc[t].code = 0)
            /\ proc[t].state = "exited" => last[t].result.ExitCode = proc[t].code
            /\ proc[t].state \in {"failed", "canceled"}
                   => last[t].result.ExitCode = -1

ExitCodeExtractionWitness ==
    /\ pc[1] = "idle"
    /\ last[1].id = 1
    /\ last[1].call.op = "ListNamespaces"
    /\ proc[1].state = "failed"
    /\ last[1].result.ExitCode = -1

\* C13: a call that has started its process returns in the end, also when
\* the process never exits by itself: the deadline passes, the process is
\* killed and the call returns an envelope with exitCode -1 and, if the
\* process wrote nothing to stderr, the stderr "command timed out".
EveryCallReturns ==
    \A t \in Threads :
        (pc[t] = "wait") ~>
            /\ pc[t] = "idle"
            /\ proc[t].state = "killed" =>
                   /\ last[t].result.ExitCode = -1
                   /\ proc[t].stderr = "" =>
                          last[t].result.Stderr = "command timed out"

\* Goroutine t has returned from ListPods, whose kubectl printed the cluster
\* and exited with 0; Listed(t) are the pods it decoded.
HasListed(t) ==
    /\ pc[t] = "idle"
    /\ last[t].id > 0
    /\ last[t].call.op = "ListPods"
    /\ proc[t].state = "exited"
    /\ proc[t].code = 0
    /\ proc[t].stdout = RenderPods(cluster)

Listed(t) == last[t].result.ParsedData.value

DecodedAll(t) ==
    /\ ~last[t].result.ParsedData.isNil
    /\ Len(Listed(t)) = Len(cluster)

\* The reason of one container: that of terminated, else that of waiting.
ContainerReason(c) ==
    IF c.terminated.present /\ c.terminated.reason # "" THEN c.terminated.reason
    ELSE IF c.waiting.present /\ c.waiting.reason # "" THEN c.waiting.reason
    ELSE ""

WithReason(p) ==
    {i \in 1..Len(p.containers) : ContainerReason(p.containers[i]) # ""}

ExpectedStatus(p) ==
    IF WithReason(p) # {}
    THEN ContainerReason(p.containers[CHOOSE i \in WithReason(p) :
                                         \A j \in WithReason(p) : j <= i])
    ELSE IF p.reason # "" THEN p.reason
    ELSE p.phase

\* C15: the status decoded for a pod is the reason of the last container
\* in listed order that has a non-empty reason (its terminated reason if not
\* empty, else its waiting reason); with no such container, status.reason if
\* not empty, else the phase.
StatusPrecedence ==
    \A t \in Threads :
        HasListed(t) =>
            /\ DecodedAll(t)
            /\ \A i \in 1..Len(cluster) :
                   Listed(t)[i].Status = ExpectedStatus(cluster[i])

StatusPrecedenceWitness ==
    /\ HasListed(1)
    /\ cluster[1].phase = "Running"
    /\ cluster[1].containers =
           <<Container(FALSE, 1, Absent, Reason("OOMKilled")),
             Container(FALSE, 3, Reason("CrashLoopBackOff"), Absent)>>
    /\ Listed(1)[1].Status = "CrashLoopBackOff"

\* The age of pod p when the clock reads k, in seconds
AgeOf(p, k) == Since(k, ParseTime(p.created).at)

ExpectedAge(d) ==
    IF d < 60 THEN ToString(d) \o "s"
    ELSE IF d < 3600 THEN ToString(d \div 60) \o "m"
    ELSE IF d < 86400 THEN ToString(d \div 3600) \o "h"
    ELSE IF d < 604800 THEN ToString(d \div 86400) \o "d"
    ELSE IF d < 2592000 THEN ToString(d \div 604800) \o "w"
    ELSE ToString(d \div 2592000) \o "mo"

\* The labels the claim names
AgeExamples ==
    (45 :> "45s") @@ (60 :> "1m") @@ (90 :> "1m") @@ (90000 :> "1d")
        @@ (604800 :> "1w") @@ (864000 :> "1w") @@ (2592000 :> "1mo")
        @@ (3456000 :> "1mo")

\* C16: the age decoded for a pod created d >= 0 whole seconds before the
\* reading of the clock is d in the largest unit among s, m, h, d, w (7
\* days) and mo (30 days) that is not more than d, the quotient truncated;
\* the examples of the claim have the labels it names.
AgeBuckets ==
    \A t \in Threads :
        HasListed(t) =>
            /\ DecodedAll(t)
            /\ \A i \in 1..Len(cluster) :
                   LET d == AgeOf(cluster[i], clock) IN
                   /\ d >= 0 => Listed(t)[i].Age = ExpectedAge(d)
                   /\ d \in DOMAIN AgeExamples
                          => Listed(t)[i].Age = AgeExamples[d]

AgeBucketsWitness ==
    /\ HasListed(1)
    /\ AgeOf(cluster[1], clock) = 604800
    /\ Listed(1)[1].Age = "1w"

RECURSIVE SumRestarts(_)
SumRestarts(cs) ==
    IF cs = <<>> THEN 0 ELSE Head(cs).restartCount + SumRestarts(Tail(cs))

\* C17: the ready decoded for a pod is "<r>/<t>", t the number of its
\* containers and r the number of the ready ones, and its restarts is the
\* sum of the restart counts of its containers.
ReadyAndRestarts ==
    \A t \in Threads :
        HasListed(t) =>
            /\ DecodedAll(t)
            /\ \A i \in 1..Len(cluster) :
                   LET cs == cluster[i].containers
                       r == Cardinality({k \in 1..Len(cs) : cs[k].ready})
                   IN  /\ Listed(t)[i].Ready
                              = ToString(r) \o "/" \o ToString(Len(cs))
                       /\ Listed(t)[i].Restarts = SumRestarts(cs)

ReadyAndRestartsWitness ==
    /\ HasListed(1)
    /\ cluster[1].containers =
           <<Container(TRUE, 2, Absent, Reason("")),
             Container(FALSE, 3, Reason("CrashLoopBackOff"), Absent)>>
    /\ Listed(1)[1].Ready = "1/2"
    /\ Listed(1)[1].Restarts = 5

\* Recorded envelopes i and j are of two calls of the same method that got
\* the same text from a process that exited with 0.
SameText(i, j) ==
    /\ appended[i].Command = appended[j].Command
    /\ appended[i].Stdout = appended[j].Stdout
    /\ appended[i].ExitCode = 0
    /\ appended[j].ExitCode = 0

SameOutcome(i, j) ==
    /\ appended[i].Stderr = appended[j].Stderr
    /\ appended[i].ParsedData.isNil = appended[j].ParsedData.isNil

IsPodList(r) == HasPrefix(r.Command, "kubectl get pods") /\ ~r.ParsedData.isNil

WithoutAge(pods) == [k \in 1..Len(pods) |-> [pods[k] EXCEPT !.Age = ""]]

\* C19 as claimed: two calls of a decoder with the same JSON text return
\* the same records, whatever the moment of the call.
DecodersPure ==
    \A i, j \in 1..Len(appended) :
        SameText(i, j) =>
            /\ SameOutcome(i, j)
            /\ appended[i].ParsedData = appended[j].ParsedData

\* C19 as amended: two calls of the namespaces or contexts decoder with the
\* same JSON text return the same records; two calls of the pods decoder
\* with the same JSON text return records that are the same in every field
\* but the age, and in the age too when the clock has not moved.
DecodersPureButAge ==
    \A i, j \in 1..Len(appended) :
        SameText(i, j) =>
            /\ SameOutcome(i, j)
            /\ IF IsPodList(appended[i])
               THEN /\ WithoutAge(appended[i].ParsedData.value)
                          = WithoutAge(appended[j].ParsedData.value)
                    /\ clock \in NowSamples
                          => appended[i].ParsedData = appended[j].ParsedData
               ELSE appended[i].ParsedData = appended[j].ParsedData

DecodersPureButAgeWitness ==
    /\ Len(appended) = 2
    /\ SameText(1, 2)
    /\ appended[1].Stdout = PodsJSON
    /\ IsPodList(appended[1])
    /\ appended[1].ParsedData.value[1].Age = "1d"
    /\ appended[2].ParsedData.value[1].Age = "2d"
    /\ appended[2].ParsedData.value[1].Status = "CrashLoopBackOff"

\* The --tail argument the claim gives for a call of GetPodLogs
TailArgument(c) == "--tail=" \o ToString(IF c.tail <= 0 THEN 100 ELSE c.tail)

\* C14: the vector a call of GetPodLogs hands to the Runner ends with
\* --tail=100 when tailLines <= 0 and with --tail=<tailLines> when
\* tailLines > 0, and has no other --tail argument.
TailDefaulted ==
    \A t \in Threads :
        call[t].op = "GetPodLogs" /\ runs[t] # <<>> =>
            LET a == runs[t][1].args IN
            /\ a[Len(a)] = TailArgument(call[t])
            /\ \A i \in 1..(Len(a) - 1) : ~HasPrefix(a[i], "--tail")

TailDefaultedWitness ==
    /\ call[1] = Call("GetPodLogs", "", "a", "a", -5)
    /\ pc[1] = "wait"
    /\ runs[1][1].args = <<"logs", "a", "-n", "a", "--tail=100">>

\* a has "-o" followed by "json"
RequestsJSON(a) == \E i \in 1..(Len(a) - 1) : a[i] = "-o" /\ a[i + 1] = "json"

\* C18: the vector a call of ListContexts, GetCurrentContext, ListNamespaces
\* or ListPods hands to the Runner has -o json.
JSONRequested ==
    \A t \in Threads :
        call[t].op \in Decoding =>
            \A i \in DOMAIN runs[t] : RequestsJSON(runs[t][i].args)

\* C20: the Runner is invoked with a timeout of 30 seconds by GetPodLogs and
\* of 15 seconds by every other method.
TimeoutPerOperation ==
    \A t \in Threads :
        \A i \in DOMAIN runs[t] :
            runs[t][i].timeout = IF call[t].op = "GetPodLogs" THEN 30 ELSE 15

TimeoutPerOperationWitness ==
    /\ call[1] = Call("GetPodLogs", "", "a", "a", 1)
    /\ pc[1] = "wait"
    /\ runs[1] = <<[args |-> <<"logs", "a", "-n", "a", "--tail=1">>,
                    timeout |-> 30]>>

-----------------------------------------------------------------------------
\* The names of a list that are not empty, in the order of the list.
Kept(names) == SelectSeq(names, LAMBDA n : n # "")

\* Goroutine t has returned from listing the names of the cluster.
HasListedNames(t) ==
    /\ pc[t] = "idle"
    /\ last[t].id > 0
    /\ last[t].call.op \in {"ListContexts", "ListNamespaces"}
    /\ proc[t].stdout = Rendered(last[t].call.op, cluster)

\* C21: the namespace decoder and the context decoder return the names of
\* the list that are not empty, each as often as the list has it and in the
\* order of the list: nothing reordered, nothing deduplicated.
NamesKeptInOrder ==
    \A t \in Threads :
        HasListedNames(t) =>
            /\ ~last[t].result.ParsedData.isNil
            /\ Listed(t) =
                   IF last[t].call.op = "ListContexts" THEN Kept(cluster)
                   ELSE [i \in 1..Len(Kept(cluster)) |->
                            [Name |-> Kept(cluster)[i]]]

\* The namespace decoder has read a list with an empty name between two equal
\* names and has returned the name twice.
NamesKeptInOrderWitness ==
    /\ HasListedNames(1)
    /\ cluster = <<"b", "", "b">>
    /\ last[1].call.op = "ListNamespaces"
    /\ Listed(1) = <<[Name |-> "b"], [Name |-> "b"]>>

-----------------------------------------------------------------------------
\* The inputs of call c pass the validation of its method.
PassesValidation(c) == Prep(c).valid

\* C22: a call that passes validation appends one envelope to the
\* transcript, and does so after the Runner has returned and after the
\* decoding: once appended, the envelope is the result the call is holding,
\* and a call that has returned has appended the very envelope it returned
\* (command, stdout, exitCode, stderr with any parse error line, parsedData).
RecordedOnceAsReturned ==
    \A t \in Threads :
        /\ recs[t] # <<>> =>
               /\ pc[t] \in {"truncate", "return", "idle"}
               /\ Len(runs[t]) = 1
               /\ recs[t] = <<result[t]>>
        /\ pc[t] \in {"return", "idle"} /\ call[t].op # "none"
               /\ PassesValidation(call[t]) =>
                      /\ recs[t] = <<result[t]>>
                      /\ pc[t] = "idle" =>
                             /\ last[t].call = call[t]
                             /\ last[t].recs = <<last[t].result>>
                             /\ last[t].result = result[t]

\* A call of ListContexts whose kubectl printed a truncated text and exited
\* with 0 has returned an envelope with a parse error line, which is the one
\* envelope of the transcript.
RecordedOnceAsReturnedWitness ==
    /\ pc[1] = "idle"
    /\ last[1].id = 1
    /\ last[1].call.op = "ListContexts"
    /\ proc[1].stdout = TruncatedJSON
    /\ last[1].result.ExitCode = 0
    /\ last[1].result.Stderr =
           proc[1].stderr \o "\nparse error: unexpected end of JSON input"
    /\ Elems(heap, transcript) = <<last[1].result>>

-----------------------------------------------------------------------------
\* Goroutine t has returned from a call that failed validation.
Rejected(t) ==
    /\ pc[t] = "idle"
    /\ last[t].id > 0
    /\ last[t].call = call[t]
    /\ last[t].runs = <<>>
    /\ last[t].result.ExitCode = -1

\* C25: ListPods, DeletePod, GetPodLogs and DescribePod validate the
\* namespace, then the pod name, then the context name: a call with an
\* input that breaks its rule has been rejected, and the stderr of a rejected
\* call is the message of the first check that fails in this order, alone.
ValidationOrder ==
    \A t \in Threads :
        call[t].op \in NamespaceOps =>
            /\ \/ ViolatesLabelRule(call[t].namespace)
               \/ call[t].op \in PodOps /\ ViolatesLabelRule(call[t].name)
               \/ ViolatesContextRule(call[t].contextName)
               => Rejected(t)
            /\ Rejected(t) =>
                   last[t].result.Stderr = FirstValidationMessage(call[t])

\* DeletePod with an invalid namespace, an invalid pod name and an invalid
\* context name has returned the namespace message.
ValidationOrderWitness ==
    /\ Rejected(1)
    /\ call[1] = Call("DeletePod", "-dev", "a-", "Web", 0)
    /\ last[1].result.Stderr = "invalid namespace name"

\* The arguments a rejected call displays: the raw inputs, without --tail.
DisplayedArguments(c) ==
    CASE c.op = "SetContext" -> <<"config", "use-context", c.contextName>>
      [] c.op = "ListNamespaces" -> <<"get", "ns", "-o", "json">>
      [] c.op = "ListPods" -> <<"get", "pods", "-n", c.namespace, "-o", "json">>
      [] c.op = "DeletePod" -> <<"delete", "pod", c.name, "-n", c.namespace>>
      [] c.op = "GetPodLogs" -> <<"logs", c.name, "-n", c.namespace>>
      [] c.op = "DescribePod" -> <<"describe", "pod", c.name, "-n", c.namespace>>

\* C26: the command of the envelope of a rejected call is "kubectl " and the
\* arguments of the operation with the raw inputs, joined by spaces; they
\* begin with --context <name> only when the context name is the input that
\* failed (never for a namespace or pod name failure, and never for
\* SetContext), and those of GetPodLogs have no --tail argument.
RejectedCommandDisplay ==
    \A t \in Threads :
        Rejected(t) =>
            last[t].result.Command =
                "kubectl " \o
                Join((IF /\ call[t].op # "SetContext"
                         /\ FirstValidationMessage(call[t])
                                = "invalid context name"
                      THEN <<"--context", call[t].contextName>> ELSE <<>>)
                     \o DisplayedArguments(call[t]), " ")

\* GetPodLogs with a valid context name, a tail of 250 and an invalid pod
\* name has displayed neither the context nor a --tail argument.
RejectedCommandDisplayWitness ==
    /\ Rejected(1)
    /\ call[1] = Call("GetPodLogs", "gke_p:z@h/c-1.x", "a", "a-", 250)
    /\ last[1].result.Command = "kubectl logs a- -n a"

\* C27: SetContext hands the Runner config, use-context and the name, never
\* preceded by --context; with the empty name it is not rejected: it runs
\* kubectl with the vector [config, use-context, ""] and records the result.
SetContextEmptyRuns ==
    \A t \in Threads :
        call[t].op = "SetContext" =>
            /\ runs[t] # <<>> =>
                   /\ Len(runs[t]) = 1
                   /\ runs[t][1].args =
                          <<"config", "use-context", call[t].contextName>>
            /\ call[t].contextName = "" =>
                   /\ pc[t] # "idle"
                   \/ /\ last[t].call = call[t]
                      /\ Len(last[t].runs) = 1
                      /\ last[t].runs[1].args = <<"config", "use-context", "">>
                      /\ last[t].recs = <<last[t].result>>

SetContextEmptyRunsWitness ==
    /\ pc[1] = "idle"
    /\ last[1].id = 1
    /\ last[1].call = Call("SetContext", "", "", "", 0)
    /\ last[1].runs[1].args = <<"config", "use-context", "">>
    /\ last[1].result.Command = "kubectl config use-context "
    /\ Elems(heap, transcript) = <<last[1].result>>

\* C30: an envelope with the stderr text "command timed out", which no
\* process prints, has an exitCode other than 0.
TimeoutMessageOnlyOnFailure ==
    \A t \in Threads :
        /\ last[t].id > 0
        /\ proc[t].stderr = ""
        /\ HasPrefix(last[t].result.Stderr, "command timed out")
        => last[t].result.ExitCode # 0

-----------------------------------------------------------------------------
\* Goroutine t is between the Lock and the Unlock of record, GetTranscript
\* or ClearTranscript.
InCritical(t) == pc[t] \in {"append", "truncate", "copy", "clear"}

\* C23: whatever the interleaving of appends, snapshots and clears, at most
\* one goroutine is inside record, GetTranscript or ClearTranscript, a
\* transcript of more than 200 envelopes exists only inside record, before
\* its truncation, and every snapshot GetTranscript has returned has at most
\* 200 envelopes.
ExclusiveAndBounded ==
    /\ \A t, u \in Threads : InCritical(t) /\ InCritical(u) => t = u
    /\ \A t \in Threads : InCritical(t) => mu = t
    /\ transcript.len > TranscriptCap =>
           /\ transcript.len = TranscriptCap + 1
           /\ \E t \in Threads : pc[t] = "truncate"
    /\ \A i \in 1..Len(snapshots) : snapshots[i].len <= TranscriptCap

\* The transcript holds 201 envelopes inside record, after GetTranscript has
\* returned a snapshot of 200.
ExclusiveAndBoundedWitness ==
    /\ transcript.len = TranscriptCap + 1
    /\ pc[1] = "truncate"
    /\ Len(snapshots) = 1
    /\ snapshots[1].len = TranscriptCap

-----------------------------------------------------------------------------
\* What the transcript holds after the appends since the last clear.
Retained == LastN(appended, IF Len(appended) < TranscriptCap
                            THEN Len(appended) ELSE TranscriptCap)

\* C24: what GetTranscript returns is the last (at most 200) envelopes
\* appended since the last clear, in order: nothing when no append followed
\* the clear.  Outside record, the transcript itself starts again from
\* empty after a clear, never exceeds 200 and keeps the order of the appends,
\* across appends and clears.
FreshAfterClear ==
    /\ [](mu = 0 =>
             /\ transcript.len <= TranscriptCap
             /\ Elems(heap, transcript) = Retained)
    /\ [][Len(snapshots') > Len(snapshots) =>
              /\ Elems(heap', snapshots'[Len(snapshots')]) = Retained
              /\ appended = <<>> => snapshots'[Len(snapshots')].len = 0]_vars

\* After a clear of a transcript of three envelopes GetTranscript has
\* returned an empty sequence, and more than 200 appends have followed, of
\* which the transcript holds 200.
FreshAfterClearWitness ==
    /\ clears = 1
    /\ Len(snapshots) = 1
    /\ snapshots[1].len = 0
    /\ Len(appended) > TranscriptCap
    /\ transcript.len = TranscriptCap
    /\ pc[1] = "idle"

-----------------------------------------------------------------------------
\* C28: the transcript is in the order in which the calls record their
\* envelopes: each record puts its envelope behind all that are in the
\* transcript.  This need not be the order of the invocations.
RecordOrder ==
    [][\A t \in Threads :
           pc[t] = "append" /\ pc'[t] = "truncate" =>
               Elems(heap', transcript') =
                   Append(Elems(heap, transcript), result[t])]_vars

\* The envelope of goroutine 2, which was invoked second, is in front of the
\* envelope of goroutine 1, which was invoked first.
RecordOrderWitness ==
    /\ pc[1] = "idle" /\ pc[2] = "idle"
    /\ last[1].call = FirstCall
    /\ last[2].call = SecondCall
    /\ last[1].result # last[2].result
    /\ Elems(heap, transcript) = <<last[2].result, last[1].result>>

\* C29: a clear changes nothing of a call in flight: not its position, its
\* process, its result; the call goes on to append its envelope, so that
\* every call that has returned has recorded the envelope it returned, and
\* outside record the transcript holds the envelopes recorded since the
\* clear, without any new invocation.
InFlightSurvivesClear ==
    /\ [][clears' # clears =>
              \A u \in Threads :
                  pc[u] # "clear" =>
                      /\ pc'[u] = pc[u]
                      /\ proc'[u] = proc[u]
                      /\ result'[u] = result[u]
                      /\ recs'[u] = recs[u]]_vars
    /\ [](\A t \in Threads :
              pc[t] = "idle" /\ last[t].id > 0 =>
                  last[t].recs = <<last[t].result>>)
    /\ [](mu = 0 => Elems(heap, transcript) = appended)

\* One call has been invoked; the transcript was cleared while its process
\* was running, and now holds the envelope of the call.
InFlightSurvivesClearWitness ==
    /\ calls = 1
    /\ clears = 1
    /\ pc[1] = "idle"
    /\ last[1].id = 1
    /\ Elems(heap, transcript) = <<last[1].result>>

=============================================================================
